---- MODULE Spec2Model ----
(***************************************************************************)
(* Statistics core of MindSpace (utils/stats code kept in                  *)
(* src/mindspace/utils/security.ts, lines 868-1295): combineDailyEntries   *)
(* and the mood/sleep and mood/water correlation functions.                *)
(*                                                                         *)
(* JavaScript numbers are IEEE-754 binary64.  The correlation arithmetic   *)
(* is modelled bit-exactly: a finite number is sign * mantissa * 2^exp     *)
(* with a 53-bit mantissa, every operation rounds to nearest, ties to      *)
(* even.  Mantissas do not fit TLC's 32-bit integers, so they are kept as  *)
(* little-endian sequences of 15-bit limbs.                                *)
(***************************************************************************)
EXTENDS Integers, Sequences, FiniteSets, TLC

(***************************************************************************)
(* Natural numbers of arbitrary size: little-endian limbs, base 2^15,      *)
(* no leading (last-position) zero limb; zero is the empty sequence.       *)
(***************************************************************************)
\* TLC works out the argument of an operator when the operator first uses
\* it; Done(value) uses it, so that a loop works out the result of a step
\* before it takes the next step
Done(value) == value = value

LimbBits == 15
Base == 32768

Pow2(k) == 2 ^ k

RECURSIVE BNorm(_)
BNorm(a) ==
  IF Len(a) = 0 THEN << >>
  ELSE IF a[Len(a)] = 0 THEN BNorm(SubSeq(a, 1, Len(a) - 1))
  ELSE a

RECURSIVE BFromInt(_)
BFromInt(n) ==
  IF n = 0 THEN << >> ELSE <<n % Base>> \o BFromInt(n \div Base)

RECURSIVE BAddC(_, _, _, _)
BAddC(a, b, i, c) ==
  IF i > Len(a) /\ i > Len(b)
  THEN (IF c = 0 THEN << >> ELSE <<c>>)
  ELSE LET x == IF i > Len(a) THEN 0 ELSE a[i]
           y == IF i > Len(b) THEN 0 ELSE b[i]
           t == x + y + c
       IN  <<t % Base>> \o BAddC(a, b, i + 1, t \div Base)

BAdd(a, b) == BAddC(a, b, 1, 0)

\* a - b for a >= b
RECURSIVE BSubC(_, _, _, _)
BSubC(a, b, i, c) ==
  IF i > Len(a) THEN << >>
  ELSE LET y == IF i > Len(b) THEN 0 ELSE b[i]
           t == a[i] - y - c
       IN  IF t < 0 THEN <<t + Base>> \o BSubC(a, b, i + 1, 1)
                    ELSE <<t>> \o BSubC(a, b, i + 1, 0)

BSub(a, b) == BNorm(BSubC(a, b, 1, 0))

\* -1, 0, 1 as a < b, a = b, a > b (both normalised)
RECURSIVE BCmpAt(_, _, _)
BCmpAt(a, b, i) ==
  IF i = 0 THEN 0
  ELSE IF a[i] < b[i] THEN -1
  ELSE IF a[i] > b[i] THEN 1
  ELSE BCmpAt(a, b, i - 1)

BCmp(a, b) ==
  IF Len(a) < Len(b) THEN -1
  ELSE IF Len(a) > Len(b) THEN 1
  ELSE BCmpAt(a, b, Len(a))

\* a * k + c for a limb k
RECURSIVE BMulSmall(_, _, _, _)
BMulSmall(a, k, i, c) ==
  IF i > Len(a) THEN (IF c = 0 THEN << >> ELSE <<c>>)
  ELSE LET t == a[i] * k + c
       IN  <<t % Base>> \o BMulSmall(a, k, i + 1, t \div Base)

RECURSIVE BMulAt(_, _, _)
BMulAt(a, b, j) ==
  IF j > Len(b) THEN << >>
  ELSE BAdd(BMulSmall(a, b[j], 1, 0), <<0>> \o BMulAt(a, b, j + 1))

BMul(a, b) == BNorm(BMulAt(a, b, 1))

RECURSIVE IntBitLen(_)
IntBitLen(x) == IF x = 0 THEN 0 ELSE 1 + IntBitLen(x \div 2)

BBitLen(a) ==
  IF Len(a) = 0 THEN 0
  ELSE LimbBits * (Len(a) - 1) + IntBitLen(a[Len(a)])

\* bit i (bit 0 is the lowest)
BBit(a, i) ==
  LET q == i \div LimbBits
      r == i % LimbBits
  IN  IF q + 1 > Len(a) THEN 0 ELSE (a[q + 1] \div Pow2(r)) % 2

\* some bit below bit k is set
BLowNonZero(a, k) ==
  LET q == k \div LimbBits
      r == k % LimbBits
  IN  \/ \E i \in 1..Len(a) : i <= q /\ a[i] # 0
      \/ q + 1 <= Len(a) /\ a[q + 1] % Pow2(r) # 0

\* a * 2^k
BShl(a, k) ==
  LET q == k \div LimbBits
      r == k % LimbBits
      n == Len(a)
      s == [i \in 1..(n + 1) |->
              (IF i <= n THEN (a[i] * Pow2(r)) % Base ELSE 0)
            + (IF i > 1 THEN a[i - 1] \div Pow2(LimbBits - r) ELSE 0)]
  IN  IF n = 0 THEN << >>
      ELSE BNorm([i \in 1..q |-> 0] \o s)

\* floor(a / 2^k)
BShr(a, k) ==
  LET q == k \div LimbBits
      r == k % LimbBits
      n == Len(a) - q
  IN  IF n <= 0 THEN << >>
      ELSE BNorm([i \in 1..n |->
                   (a[i + q] \div Pow2(r))
                 + (IF i < n THEN (a[i + q + 1] % Pow2(r)) * Pow2(LimbBits - r)
                             ELSE 0)])

\* long division, one quotient bit per step, given the remainder r < d:
\* the doubled remainder r2 gives the next bit of the quotient q
BDivPick(q, r2, d) ==
  IF BCmp(r2, d) >= 0
  THEN [q |-> BAddC(q, q, 1, 1), r |-> BSub(r2, d)]
  ELSE [q |-> BAddC(q, q, 1, 0), r |-> r2]

BDivStep(st, d) == BDivPick(st.q, BAdd(st.r, st.r), d)

\* n steps, as the first half of them followed by the rest
RECURSIVE BDivBits(_, _, _)
RECURSIVE BDivRest(_, _, _)
BDivBits(st, d, n) ==
  IF n = 0 THEN st
  ELSE IF n = 1 THEN BDivStep(st, d)
  ELSE BDivRest(BDivBits(st, d, n \div 2), d, n - n \div 2)

BDivRest(st, d, n) == IF Done(st) THEN BDivBits(st, d, n) ELSE st

\* quotient and remainder of a by a single limb k, from the top limb down
RECURSIVE BDivSmall(_, _, _, _)
BDivSmall(a, k, i, rem) ==
  IF i = 0 THEN [q |-> << >>, r |-> rem]
  ELSE LET t == rem * Base + a[i]
           lo == BDivSmall(a, k, i - 1, t % k)
       IN  [q |-> Append(lo.q, t \div k), r |-> lo.r]

\* floor square root by the digit recurrence: r holds the bits above i and
\* rem = x - r^2; bit i is set when t = 2^(i+1) * r + 2^(2i) fits in rem
BSqrtPick(st, t) ==
  IF BCmp(t, st.rem) <= 0
  THEN [r |-> BAdd(st.r, BShl(<<1>>, st.i)), rem |-> BSub(st.rem, t),
        i |-> st.i - 1]
  ELSE [r |-> st.r, rem |-> st.rem, i |-> st.i - 1]

BSqrtStep(st) ==
  BSqrtPick(st, BAdd(BShl(st.r, st.i + 1), BShl(<<1>>, 2 * st.i)))

\* n steps, as the first half of them followed by the rest
RECURSIVE BSqrtBits(_, _)
RECURSIVE BSqrtRest(_, _)
BSqrtBits(st, n) ==
  IF n = 0 THEN st
  ELSE IF n = 1 THEN BSqrtStep(st)
  ELSE BSqrtRest(BSqrtBits(st, n \div 2), n - n \div 2)

BSqrtRest(st, n) == IF Done(st) THEN BSqrtBits(st, n) ELSE st

\* floor square root of x and the remainder x - r^2, for x of 2 * half
\* or 2 * half - 1 bits: one step for each bit of the root, from the top
BSqrtRem(x, half) ==
  BSqrtBits([r |-> << >>, rem |-> x, i |-> half - 1], half)

(***************************************************************************)
(* IEEE-754 binary64 values.  A finite number is s * m * 2^e with s the    *)
(* sign and m either zero or a 53-bit mantissa; kind "nan" and "inf" are   *)
(* the results of 0/0 and x/0.  -0 is not kept apart from +0: the code     *)
(* only compares, divides into isNaN and returns these numbers, and every  *)
(* comparison in JavaScript takes -0 and +0 as equal.  The exponent is not *)
(* bounded: with moods in 1..5 and factors in 0..30 every intermediate     *)
(* value lies between 2^-120 and 2^24 or is zero, far inside the range of  *)
(* a double.                                                               *)
(***************************************************************************)
MantBits == 53

Zero == [k |-> "num", s |-> 1, m |-> << >>, e |-> 0]
NaN == [k |-> "nan", s |-> 1, m |-> << >>, e |-> 0]
Inf(s) == [k |-> "inf", s |-> s, m |-> << >>, e |-> 0]

IsZero(a) == a.k = "num" /\ Len(a.m) = 0

Num(s, m, e) == [k |-> "num", s |-> s, m |-> m, e |-> e]

\* the mantissa q2 after rounding up: 2^53 is renormalised to 2^52
FRoundCarry(s, e, q2) ==
  IF BBitLen(q2) > MantBits THEN Num(s, BShr(q2, 1), e + 1)
  ELSE Num(s, q2, e)

FRoundUp(s, e, q, up) ==
  IF up THEN FRoundCarry(s, e, BAdd(q, <<1>>)) ELSE Num(s, q, e)

\* m has d bits more than a mantissa: round up when the first dropped bit
\* is set and either a lower bit is or the kept mantissa is odd
FRoundAt(s, m, e, sticky, d) ==
  IF Len(m) = 0 THEN Zero
  ELSE IF d <= 0 THEN Num(s, BShl(m, 0 - d), e + d)
  ELSE FRoundUp(s, e + d, BShr(m, d),
                /\ BBit(m, d - 1) = 1
                /\ (sticky \/ BLowNonZero(m, d - 1) \/ BBit(m, d) = 1))

\* round s * (m + sticky-fraction) * 2^e to nearest, ties to even
FRound(s, m, e, sticky) == FRoundAt(s, m, e, sticky, BBitLen(m) - MantBits)

\* the Number of an integer literal or integer-valued field
FromInt(n) ==
  IF n < 0 THEN FRound(-1, BFromInt(0 - n), 0, FALSE)
           ELSE FRound(1, BFromInt(n), 0, FALSE)


FNeg(a) == IF IsZero(a) THEN a ELSE [a EXCEPT !.s = 0 - a.s]

\* the sum of two numbers of opposite sign, c comparing their mantissas
FAddSigned(sa, ma, sb, mb, e, c) ==
  IF c = 0 THEN Zero
  ELSE FRound(IF c > 0 THEN sa ELSE sb,
              IF c > 0 THEN BSub(ma, mb) ELSE BSub(mb, ma), e, FALSE)

\* the sum of sa * ma * 2^e and sb * mb * 2^e
FAddAligned(sa, ma, sb, mb, e) ==
  IF sa = sb THEN FRound(sa, BAdd(ma, mb), e, FALSE)
  ELSE FAddSigned(sa, ma, sb, mb, e, BCmp(ma, mb))

FAddAt(a, b, emin) ==
  FAddAligned(a.s, BShl(a.m, a.e - emin), b.s, BShl(b.m, b.e - emin), emin)

\* a + b
FAdd(a, b) ==
  IF IsZero(a) THEN b
  ELSE IF IsZero(b) THEN a
  ELSE FAddAt(a, b, IF a.e < b.e THEN a.e ELSE b.e)

\* a - b
FSub(a, b) == FAdd(a, FNeg(b))

\* a * b
FMul(a, b) ==
  IF IsZero(a) \/ IsZero(b) THEN Zero
  ELSE FRound(a.s * b.s, BMul(a.m, b.m), a.e + b.e, FALSE)

\* the quotient by a divisor with a single nonzero limb, the top one
BDivSmallResult(sd) == [q |-> BNorm(sd.q), r |-> BFromInt(sd.r)]

BDivSingle(num, k) == BDivSmallResult(BDivSmall(num, k, Len(num), 0))

\* the quotient found by subtracting and doubling, whose first bit is
\* set when the dividend's mantissa is at least the divisor's
BDivLong(n, d, ge) ==
  BDivBits([q |-> IF ge THEN <<1>> ELSE << >>,
            r |-> IF ge THEN BSub(n, d) ELSE n], d, MantBits + 3)

\* quotient of n * 2^56 by d and whether a remainder is left
BDivMant(n, d, nl, single) ==
  IF single
  THEN BDivSingle(BShl(n, (MantBits + 3) - LimbBits * (nl - 1)), d[nl])
  ELSE BDivLong(n, d, BCmp(n, d) >= 0)

FDivRound(s, e, qr) ==
  FRound(s, qr.q, e, Len(qr.r) # 0)

\* a / b: the quotient of the mantissas to 56 or 57 bits and whether a
\* remainder is left; a divisor with a single nonzero limb (every integer
\* below 256) is divided by limb-wise, any other by bit-wise long division
FDiv(a, b) ==
  IF IsZero(b) THEN (IF IsZero(a) THEN NaN ELSE Inf(a.s * b.s))
  ELSE IF IsZero(a) THEN Zero
  ELSE FDivRound(a.s * b.s, a.e - b.e - (MantBits + 3),
                 BDivMant(a.m, b.m, Len(b.m),
                          \A i \in 1..(Len(b.m) - 1) : b.m[i] = 0))

\* the Number that the decimal numeral t/10 denotes: the double nearest to
\* it, which is the correctly rounded quotient of the two integers
FromTenths(t) == FDiv(FromInt(t), FromInt(10))

FSqrtRound(e, sq) == FRound(1, sq.r, e, Len(sq.rem) # 0)

FSqrtAt(a, sh) ==
  FSqrtRound((a.e - sh) \div 2, BSqrtRem(BShl(a.m, sh), MantBits + 3))

\* Math.sqrt(a): the root of the mantissa scaled to 111 or 112 bits
FSqrt(a) ==
  IF IsZero(a) THEN Zero
  ELSE IF a.s < 0 THEN NaN
  ELSE FSqrtAt(a, IF (a.e - (MantBits + 5)) % 2 = 0 THEN MantBits + 5
                                                     ELSE MantBits + 6)

\* Math.pow(a, 2): the engines' pow returns a * a for the exponent 2
FPow2(a) == FMul(a, a)

SignOfNumber(d) == IF IsZero(d) THEN 0 ELSE d.s

\* -1, 0, 1 as a < b, a = b, a > b, for finite a and b
FCmp(a, b) == SignOfNumber(FSub(a, b))

isNaN(a) == a.k = "nan"

(***************************************************************************)
(* Values of the program.  An object is a record that has a field exactly  *)
(* when the property is neither undefined nor null.  A text is a sequence  *)
(* of one-character strings.  A date string YYYY-MM-DD is kept as its day  *)
(* number: the code only tests dates for equality and orders them with <,  *)
(* and strings of this fixed format order as their days do.  Sleep hours   *)
(* are kept as the decimal numeral the store returns, in tenths of an hour *)
(* (hours_slept is a numeric column and insertSleepEntry accepts any       *)
(* number from 0 to 24); FromTenths gives the Number it denotes.           *)
(***************************************************************************)
VARIABLES moodEntries, sleepEntries, waterEntries, foodEntries,
          gratitudeEntries, combinedEntries, sleepCorrelation,
          waterCorrelation, gratitudeImpact, mealImpact, pc,
          timeRange, isLoading, error, runs,
          options, tokenCache, now, requests, req, res, users, route

\* the time range of the statistics page, its loading and error state, and
\* the runs of loadAndAnalyzeData that await their fetches, each with the
\* time range it was started for
loadVars == <<timeRange, isLoading, error, runs>>

\* the statistics page and its analysis
pageVars == <<moodEntries, sleepEntries, waterEntries, foodEntries,
              gratitudeEntries, combinedEntries, sleepCorrelation,
              waterCorrelation, gratitudeImpact, mealImpact, pc, loadVars>>

\* a rate limiter: its options, its cache, the clock, and the requests it
\* was asked about with the answer to each
limiterVars == <<options, tokenCache, now, requests>>

\* the signup handler: the request it handled last, its response to it,
\* and the users of the auth service
signupVars == <<req, res, users>>

\* a page inside ProtectedRoute: the state of the auth context, of the
\* component and of the router, what was rendered last and the calls of
\* router.push
routeVars == <<route>>

\* what the statistics page has no part in
offPage == <<limiterVars, signupVars, routeVars>>

vars == <<pageVars, offPage>>

\* no limiter has been created
LimiterIdle ==
  /\ options = [interval |-> 0, limit |-> 0, uniqueTokenPerInterval |-> 0]
  /\ tokenCache = << >>
  /\ now = 0
  /\ requests = << >>

\* no request has come
SignupIdle ==
  /\ req = [method |-> "GET", body |-> << >>, ip |-> "unknown"]
  /\ res = [status |-> 0]
  /\ users = {}

\* the application has just been opened, on no page yet
RouteIdle ==
  route = [version |-> "plain", mounted |-> FALSE, session |-> FALSE,
           isLoading |-> TRUE, localLoading |-> FALSE, timer |-> FALSE,
           asPath |-> <<"/">>, rendered |-> "nothing", pushed |-> << >>]

OffPageIdle == LimiterIdle /\ SignupIdle /\ RouteIdle

\* the page as its first run left it when its fetches were sent
RunAwaited ==
  /\ timeRange = "3m"
  /\ isLoading = TRUE
  /\ error = [isNull |-> TRUE]
  /\ runs = << >>

Has(obj, field) == field \in DOMAIN obj

Without(obj, fields) == [f \in (DOMAIN obj) \ fields |-> obj[f]]

Null == [isNull |-> TRUE]

Moods == {"great", "good", "neutral", "bad", "awful"}

moodValues == [great |-> 5, good |-> 4, neutral |-> 3, bad |-> 2, awful |-> 1]

\* moodValues is an object literal, so a lookup that misses its five
\* properties goes on to Object.prototype, whose members are functions
\* (and, for __proto__, an object)
ObjectPrototypeKeys ==
  {"constructor", "toString", "toLocaleString", "valueOf", "hasOwnProperty",
   "isPrototypeOf", "propertyIsEnumerable", "__proto__", "__defineGetter__",
   "__defineSetter__", "__lookupGetter__", "__lookupSetter__"}

\* the inherited member a label names: a value that is no number
Inherited(label) == [inherited |-> label]

\* moodValues[label] !== undefined
IsDefined(label) == label \in Moods \cup ObjectPrototypeKeys

\* moodValues[label], for a label that IsDefined
moodValueOf(label) ==
  IF label \in Moods THEN moodValues[label] ELSE Inherited(label)

\* a value passed for a list parameter: an array with its items, or a
\* value that is no array (undefined, null, an object)
ArrayOf(items) == [array |-> TRUE, items |-> items]
NotAnArray == [array |-> FALSE, items |-> << >>]

\* a guard that lets every value through
ArrayIsArrayAlways(value) == TRUE

ArrayIsArray(value) == value.array

\* String.prototype.split for a one-character separator
RECURSIVE split(_, _)
split(text, sep) ==
  IF \A i \in 1..Len(text) : text[i] # sep THEN <<text>>
  ELSE LET i == CHOOSE k \in 1..Len(text) :
                  text[k] = sep /\ \A j \in 1..(k - 1) : text[j] # sep
       IN  <<SubSeq(text, 1, i - 1)>> \o split(SubSeq(text, i + 1, Len(text)), sep)

WhiteSpace == {" ", "\n", "\t"}

\* line.trim() is a non-empty string
TrimIsTruthy(line) == \E i \in 1..Len(line) : line[i] \notin WhiteSpace

\* a count that takes the empty text for one segment
mealCountOfSplitOnly(entry) ==
  IF Has(entry, "meals") THEN Len(split(entry.meals, ",")) ELSE 0

\* entry.meals ? entry.meals.split(",").length : 0
mealCountOf(entry) ==
  IF Has(entry, "meals") /\ Len(entry.meals) > 0
  THEN Len(split(entry.meals, ","))
  ELSE 0

\* entry.gratitude_items
\*   ? entry.gratitude_items.split("\n").filter(line => line.trim()).length : 0
gratitudeItemCountOf(entry) ==
  IF Has(entry, "gratitude_items") /\ Len(entry.gratitude_items) > 0
  THEN Len(SelectSeq(split(entry.gratitude_items, "\n"), TrimIsTruthy))
  ELSE 0

\* the fields one list writes into the record of the entry's date
\* (an assignment of undefined leaves the record without the field)
FieldsOf(kind, entry) ==
  CASE kind = "mood" ->
         IF IsDefined(entry.mood)
         THEN [mood |-> entry.mood, moodValue |-> moodValueOf(entry.mood)]
         ELSE [mood |-> entry.mood]
    [] kind = "sleep" ->
         [sleepHours |-> entry.hours_slept, sleepQuality |-> entry.sleep_quality]
    [] kind = "water" -> [waterCups |-> entry.cups]
    [] kind = "food" -> [mealCount |-> mealCountOf(entry)]
    [] kind = "gratitude" ->
         [hasGratitude |-> TRUE, gratitudeItemCount |-> gratitudeItemCountOf(entry)]

\* an assignment that replaces the record of the date
OwnedFieldsAll(kind) ==
  {"mood", "moodValue", "sleepHours", "sleepQuality", "waterCups",
   "mealCount", "hasGratitude", "gratitudeItemCount"}

\* the fields a list assigns, whatever their value
OwnedFields(kind) ==
  CASE kind = "mood" -> {"mood", "moodValue"}
    [] kind = "sleep" -> {"sleepHours", "sleepQuality"}
    [] kind = "water" -> {"waterCups"}
    [] kind = "food" -> {"mealCount"}
    [] kind = "gratitude" -> {"hasGratitude", "gratitudeItemCount"}

\* a lookup that never finds the date
IndexOfDateNever(entriesByDate, date) == 0

\* entriesByDate is the sequence of its values in property order; the keys
\* are date strings, which enumerate in insertion order
IndexOfDate(entriesByDate, date) ==
  IF \E i \in 1..Len(entriesByDate) : entriesByDate[i].date = date
  THEN CHOOSE i \in 1..Len(entriesByDate) : entriesByDate[i].date = date
  ELSE 0

\* a callback whose assignments leave the fields the record already has
ProcessEntryKeepsFirst(kind, entriesByDate, entry) ==
  LET i == IndexOfDate(entriesByDate, entry.date)
      created == IF i = 0 THEN Append(entriesByDate, [date |-> entry.date])
                          ELSE entriesByDate
      j == IF i = 0 THEN Len(created) ELSE i
  IN  [created EXCEPT ![j] = @ @@ FieldsOf(kind, entry)]

\* one forEach callback: create the record of the date if there is none,
\* then assign the list's fields
ProcessEntry(kind, entriesByDate, entry) ==
  LET i == IndexOfDate(entriesByDate, entry.date)
      created == IF i = 0 THEN Append(entriesByDate, [date |-> entry.date])
                          ELSE entriesByDate
      j == IF i = 0 THEN Len(created) ELSE i
  IN  [created EXCEPT
         ![j] = FieldsOf(kind, entry) @@ Without(@, OwnedFields(kind))]

\* entriesByDate after the callbacks of the items first to last: those of
\* the first half of the items, then those of the rest
RECURSIVE forEach(_, _, _, _, _)
RECURSIVE forEachRest(_, _, _, _, _)
forEach(kind, items, first, last, entriesByDate) ==
  IF first > last THEN entriesByDate
  ELSE IF first = last THEN ProcessEntry(kind, entriesByDate, items[first])
  ELSE forEachRest(kind, items, (first + last) \div 2 + 1, last,
                   forEach(kind, items, first, (first + last) \div 2,
                           entriesByDate))

forEachRest(kind, items, first, last, entriesByDate) ==
  IF Done(entriesByDate)
  THEN forEach(kind, items, first, last, entriesByDate)
  ELSE entriesByDate

\* if (Array.isArray(list)) list.forEach(...)
ProcessList(kind, list, entriesByDate) ==
  IF ArrayIsArray(list)
  THEN forEach(kind, list.items, 1, Len(list.items), entriesByDate)
  ELSE entriesByDate

\* a sort that leaves the records in property order
InsertByDateUnsorted(sorted, e) == Append(sorted, e)

\* the place of a record among k sorted records
InsertAt(sorted, e, k) ==
  SubSeq(sorted, 1, k) \o <<e>> \o SubSeq(sorted, k + 1, Len(sorted))

\* Array.prototype.sort with the date comparator: a stable insertion of
\* each record after the records whose date is not greater
InsertByDate(sorted, e) ==
  InsertAt(sorted, e,
           Cardinality({i \in 1..Len(sorted) : sorted[i].date <= e.date}))

\* the records first to last inserted into the sorted ones: those of the
\* first half, then the rest
RECURSIVE sortByDate(_, _, _, _)
RECURSIVE sortByDateRest(_, _, _, _)
sortByDate(entries, first, last, sorted) ==
  IF first > last THEN sorted
  ELSE IF first = last THEN InsertByDate(sorted, entries[first])
  ELSE sortByDateRest(entries, (first + last) \div 2 + 1, last,
                      sortByDate(entries, first, (first + last) \div 2,
                                 sorted))

sortByDateRest(entries, first, last, sorted) ==
  IF Done(sorted) THEN sortByDate(entries, first, last, sorted) ELSE sorted

\* Object.values(entriesByDate).sort(...)
sortedValues(entriesByDate) ==
  IF Done(entriesByDate)
  THEN sortByDate(entriesByDate, 1, Len(entriesByDate), << >>)
  ELSE << >>

combineDailyEntries(mood, sleep, water, food, gratitude) ==
  sortedValues(
    ProcessList("gratitude", gratitude,
      ProcessList("food", food,
        ProcessList("water", water,
          ProcessList("sleep", sleep,
            ProcessList("mood", mood, << >>))))))

\* calling forEach on a value that is no array raises a TypeError; the
\* call of combineDailyEntries raises when a list that is no array passes
\* its guard
forEachRaises(list) == ArrayIsArray(list) /\ ~list.array

combineRaises(mood, sleep, water, food, gratitude) ==
  \/ forEachRaises(mood)
  \/ forEachRaises(sleep)
  \/ forEachRaises(water)
  \/ forEachRaises(food)
  \/ forEachRaises(gratitude)

(***************************************************************************)
(* The state of the statistics component before any analysis has run.      *)
(***************************************************************************)
sleepCorrelationDefault ==
  [hasEnoughData |-> FALSE, correlation |-> Zero, optimalSleepHours |-> 0,
   dataPoints |-> << >>, averages |-> << >>]

waterCorrelationDefault ==
  [hasEnoughData |-> FALSE, correlation |-> Zero, optimalWaterCups |-> 0,
   dataPoints |-> << >>, averages |-> << >>]

gratitudeImpactDefault ==
  [hasEnoughData |-> FALSE, impact |-> Zero, avgMoodWithGratitude |-> Zero,
   avgMoodWithoutGratitude |-> Zero, withGratitudeDays |-> 0,
   withoutGratitudeDays |-> 0]

mealImpactDefault == [hasEnoughData |-> FALSE, mealPatterns |-> << >>]

(***************************************************************************)
(* calculateMoodSleepCorrelation and calculateMoodWaterCorrelation.  The   *)
(* two functions are the same text but for the factor they read            *)
(* (sleepHours or waterCups), the rounding of the sleep hours to the key   *)
(* of a group, and the names of the result's fields; the definitions that  *)
(* the two share take the factor as kind.  A string of digits is the       *)
(* sequence of its digits.                                                 *)
(***************************************************************************)
FactorField(kind) == IF kind = "sleep" THEN "sleepHours" ELSE "waterCups"

\* entry.moodValue !== undefined && entry.sleepHours !== undefined
HasBoth(kind, entry) == Has(entry, "moodValue") /\ Has(entry, FactorField(kind))

\* combinedEntries.filter(...)
filter(kind, entries) ==
  LET Test(entry) == HasBoth(kind, entry) IN SelectSeq(entries, Test)

\* a floor one record lower
tooFewBelowFour(entriesWithBoth) == Len(entriesWithBoth) < 4

\* entriesWithBoth.length < 5
tooFew(entriesWithBoth) == Len(entriesWithBoth) < 5

\* a rounding that drops the fraction
MathFloor(tenths) == tenths \div 10

\* Math.round of a Number that is not negative, given in tenths: the
\* nearest integer, the upper one of two that are as near
MathRound(tenths) == (tenths + 5) \div 10

\* the conversion of a non-negative integer to the string that names a
\* property
RECURSIVE NumberToString(_)
NumberToString(n) ==
  IF n < 10 THEN <<n>> ELSE Append(NumberToString(n \div 10), n % 10)

RECURSIVE parseIntFrom(_, _, _)
parseIntFrom(text, i, value) ==
  IF i > Len(text) THEN value
  ELSE parseIntFrom(text, i + 1, value * 10 + text[i])

\* parseInt of a string of digits
parseInt(text) == parseIntFrom(text, 1, 0)

\* the key of the group of an entry
GroupKey(kind, entry) ==
  IF kind = "sleep" THEN NumberToString(MathRound(entry.sleepHours))
                    ELSE NumberToString(entry.waterCups)

\* the groups object is the sequence of its properties [key, moods] in the
\* order in which Object.entries enumerates them
GroupIndex(groups, key) ==
  LET found == {j \in 1..Len(groups) : groups[j].key = key}
  IN  IF found = {} THEN 0 ELSE CHOOSE j \in found : TRUE

\* a new property that goes behind the properties there are
CreateGroupLast(groups, key) == Append(groups, [key |-> key, moods |-> << >>])

\* sleepGroups[hoursRounded] = []: the keys are canonical array indices,
\* which an object enumerates in ascending numeric order, before any other
\* key and whatever the order in which they were created
CreateGroup(groups, key) ==
  LET before == Cardinality({j \in 1..Len(groups) :
                               parseInt(groups[j].key) < parseInt(key)})
  IN  SubSeq(groups, 1, before) \o <<[key |-> key, moods |-> << >>]>>
        \o SubSeq(groups, before + 1, Len(groups))

\* the body of entriesWithBoth.forEach
AddToGroup(kind, groups, entry) ==
  LET key == GroupKey(kind, entry)
      created == IF GroupIndex(groups, key) = 0 THEN CreateGroup(groups, key)
                                                ELSE groups
  IN  [created EXCEPT ![GroupIndex(created, key)].moods =
                         Append(@, entry.moodValue)]

\* the groups after the callbacks of the first n entries
RECURSIVE groupEntries(_, _, _)
groupEntries(kind, entriesWithBoth, n) ==
  IF n = 0 THEN << >>
  ELSE AddToGroup(kind, groupEntries(kind, entriesWithBoth, n - 1),
                  entriesWithBoth[n])

\* moods.reduce((sum, mood) => sum + mood, 0)
RECURSIVE sumOf(_, _)
sumOf(moods, n) ==
  IF n = 0 THEN 0 ELSE sumOf(moods, n - 1) + moods[n]

\* the record pushed for a group
AverageOf(kind, group) ==
  (IF kind = "sleep" THEN [hours |-> parseInt(group.key)]
                     ELSE [cups |-> parseInt(group.key)])
  @@ [avgMood |-> FDiv(FromInt(sumOf(group.moods, Len(group.moods))),
                       FromInt(Len(group.moods))),
      count |-> Len(group.moods)]

\* Object.entries(groups).forEach(...): the averages of the first n groups
RECURSIVE averagesOf(_, _, _)
averagesOf(kind, groups, n) ==
  IF n = 0 THEN << >>
  ELSE IF Len(groups[n].moods) > 0
       THEN Append(averagesOf(kind, groups, n - 1), AverageOf(kind, groups[n]))
       ELSE averagesOf(kind, groups, n - 1)

\* a comparison that lets the lower average in
lowerAverage(current, best) ==
  IF FCmp(current.avgMood, best.avgMood) < 0 THEN current ELSE best

\* current.avgMood > best.avgMood ? current : best
higherAverage(current, best) ==
  IF FCmp(current.avgMood, best.avgMood) > 0 THEN current ELSE best

\* averages.reduce(...) without an initial value: the first record is the
\* first best; the best of the first n records
RECURSIVE reduceAverages(_, _)
reduceAverages(averages, n) ==
  IF n = 1 THEN averages[1]
  ELSE higherAverage(averages[n], reduceAverages(averages, n - 1))

\* the optimal group; its factor is the field hours or cups
optimalOf(kind, averages) ==
  IF Len(averages) > 0 THEN reduceAverages(averages, Len(averages))
  ELSE IF kind = "sleep"
       THEN [hours |-> 0, avgMood |-> Zero, count |-> 0]
       ELSE [cups |-> 0, avgMood |-> Zero, count |-> 0]

\* a tie on the mood that goes to the lower factor
betterEntryLowerFactor(kind, current, best) ==
  IF \/ current.moodValue > best.moodValue
     \/ /\ current.moodValue = best.moodValue
        /\ current[FactorField(kind)] < best[FactorField(kind)]
  THEN current ELSE best

\* the callback of entriesWithBoth.reduce(..., entriesWithBoth[0])
betterEntry(kind, current, best) ==
  IF \/ current.moodValue > best.moodValue
     \/ /\ current.moodValue = best.moodValue
        /\ current[FactorField(kind)] > best[FactorField(kind)]
  THEN current ELSE best

\* the best of the first n entries, from the initial value entriesWithBoth[0]
RECURSIVE reduceEntries(_, _, _)
reduceEntries(kind, entriesWithBoth, n) ==
  IF n = 0 THEN entriesWithBoth[1]
  ELSE betterEntry(kind, entriesWithBoth[n],
                   reduceEntries(kind, entriesWithBoth, n - 1))

\* the Number of the factor of an entry
FactorNumber(kind, entry) ==
  IF kind = "sleep" THEN FromTenths(entry.sleepHours)
                    ELSE FromInt(entry.waterCups)

\* entriesWithBoth.map((e) => e.moodValue!), its first n elements
RECURSIVE mapMood(_, _)
mapMood(entriesWithBoth, n) ==
  IF n = 0 THEN << >>
  ELSE Append(mapMood(entriesWithBoth, n - 1),
              FromInt(entriesWithBoth[n].moodValue))

\* entriesWithBoth.map((e) => e.sleepHours!), its first n elements
RECURSIVE mapFactor(_, _, _)
mapFactor(kind, entriesWithBoth, n) ==
  IF n = 0 THEN << >>
  ELSE Append(mapFactor(kind, entriesWithBoth, n - 1),
              FactorNumber(kind, entriesWithBoth[n]))

\* values.reduce((sum, val) => sum + val, 0) over the first n values
RECURSIVE FSum(_, _)
FSum(values, n) ==
  IF n = 0 THEN Zero ELSE FAdd(FSum(values, n - 1), values[n])

\* values.reduce((sum, val) => sum + Math.pow(val - mean, 2), 0)
RECURSIVE SquareSum(_, _, _)
SquareSum(values, mean, n) ==
  IF n = 0 THEN Zero
  ELSE FAdd(SquareSum(values, mean, n - 1), FPow2(FSub(values[n], mean)))

\* the loop covariance += (moodValues[i] - moodMean) * (sleepValues[i] - sleepMean)
RECURSIVE covarianceOf(_, _, _, _, _)
covarianceOf(moods, moodMean, factors, factorMean, n) ==
  IF n = 0 THEN Zero
  ELSE FAdd(covarianceOf(moods, moodMean, factors, factorMean, n - 1),
            FMul(FSub(moods[n], moodMean), FSub(factors[n], factorMean)))

\* isNaN(correlation) ? 0 : correlation
NaNToZero(correlation) == IF isNaN(correlation) THEN Zero ELSE correlation

\* the covariance divided by the product of the variances, not its root
correlationFromProduct(covariance, moodVariance, factorVariance) ==
  NaNToZero(FDiv(covariance, FMul(moodVariance, factorVariance)))

\* covariance / Math.sqrt(moodVariance * sleepVariance), then the guard
correlationFrom(covariance, moodVariance, factorVariance) ==
  IF Done(covariance) /\ Done(moodVariance) /\ Done(factorVariance)
  THEN NaNToZero(FDiv(covariance, FSqrt(FMul(moodVariance, factorVariance))))
  ELSE Zero

\* the variances and the covariance about the two means
correlationAbout(moods, moodMean, factors, factorMean) ==
  IF Done(moodMean) /\ Done(factorMean)
  THEN correlationFrom(
         covarianceOf(moods, moodMean, factors, factorMean, Len(moods)),
         SquareSum(moods, moodMean, Len(moods)),
         SquareSum(factors, factorMean, Len(factors)))
  ELSE Zero

\* the two means
correlationOfValues(moods, factors, n) ==
  IF Done(moods) /\ Done(factors)
  THEN correlationAbout(moods, FDiv(FSum(moods, Len(moods)), n),
                        factors, FDiv(FSum(factors, Len(factors)), n))
  ELSE Zero

\* the block that computes correlation
correlationOf(kind, entriesWithBoth) ==
  IF Len(entriesWithBoth) >= 5
  THEN correlationOfValues(
         mapMood(entriesWithBoth, Len(entriesWithBoth)),
         mapFactor(kind, entriesWithBoth, Len(entriesWithBoth)),
         FromInt(Len(entriesWithBoth)))
  ELSE Zero

\* dataPoints: entriesWithBoth.map(...)
dataPointsOf(kind, entriesWithBoth) ==
  [i \in 1..Len(entriesWithBoth) |->
     LET entry == entriesWithBoth[i]
         mood == IF Has(entry, "mood") THEN [mood |-> entry.mood] ELSE << >>
     IN  IF kind = "sleep"
         THEN mood @@ [date |-> entry.date, moodValue |-> entry.moodValue,
                       sleepHours |-> entry.sleepHours]
         ELSE mood @@ [date |-> entry.date, moodValue |-> entry.moodValue,
                       waterCups |-> entry.waterCups]]

\* the array that the loop over Object.entries(groups) fills
averagesOfGroups(kind, groups) == averagesOf(kind, groups, Len(groups))

\* the averages of the groups of the entries
averagesFor(kind, entriesWithBoth) ==
  averagesOfGroups(kind,
                   groupEntries(kind, entriesWithBoth, Len(entriesWithBoth)))

\* the object that calculateMoodSleepCorrelation returns past the floor
sleepResult(entriesWithBoth, sleepMoodAverages) ==
  [hasEnoughData |-> Len(entriesWithBoth) >= 5,
   correlation |-> correlationOf("sleep", entriesWithBoth),
   optimalSleepHours |-> optimalOf("sleep", sleepMoodAverages).hours,
   bestMoodAfterSleep |->
     reduceEntries("sleep", entriesWithBoth, Len(entriesWithBoth)),
   dataPoints |-> dataPointsOf("sleep", entriesWithBoth),
   averages |-> sleepMoodAverages]

sleepCorrelationOf(entriesWithBoth) ==
  IF tooFew(entriesWithBoth)
  THEN [hasEnoughData |-> FALSE, correlation |-> Zero,
        optimalSleepHours |-> 0, bestMoodAfterSleep |-> Null]
  ELSE sleepResult(entriesWithBoth, averagesFor("sleep", entriesWithBoth))

calculateMoodSleepCorrelation(entries) ==
  sleepCorrelationOf(filter("sleep", entries))

\* the object that calculateMoodWaterCorrelation returns past the floor
waterResult(entriesWithBoth, waterMoodAverages) ==
  [hasEnoughData |-> Len(entriesWithBoth) >= 5,
   correlation |-> correlationOf("water", entriesWithBoth),
   optimalWaterCups |-> optimalOf("water", waterMoodAverages).cups,
   bestMoodAfterWater |->
     reduceEntries("water", entriesWithBoth, Len(entriesWithBoth)),
   dataPoints |-> dataPointsOf("water", entriesWithBoth),
   averages |-> waterMoodAverages]

waterCorrelationOf(entriesWithBoth) ==
  IF tooFew(entriesWithBoth)
  THEN [hasEnoughData |-> FALSE, correlation |-> Zero,
        optimalWaterCups |-> 0, bestMoodAfterWater |-> Null]
  ELSE waterResult(entriesWithBoth, averagesFor("water", entriesWithBoth))

calculateMoodWaterCorrelation(entries) ==
  waterCorrelationOf(filter("water", entries))

(***************************************************************************)
(* calculateGratitudeImpact.  The sums are sums of mood scores, which are  *)
(* the numbers of the moodValues table in every analysis that gets past    *)
(* the floor here: whole numbers, added without rounding.                  *)
(***************************************************************************)
\* entry.moodValue !== undefined
HasMood(entry) == Has(entry, "moodValue")

\* combinedEntries.filter((entry) => entry.moodValue !== undefined)
entriesWithMoodOf(entries) == SelectSeq(entries, HasMood)

\* entry.hasGratitude, a field that is true or undefined
IsGratitudeDay(entry) == Has(entry, "hasGratitude") /\ entry.hasGratitude

IsNonGratitudeDay(entry) == ~IsGratitudeDay(entry)

gratitudeDaysOf(entriesWithMood) == SelectSeq(entriesWithMood, IsGratitudeDay)

nonGratitudeDaysOf(entriesWithMood) ==
  SelectSeq(entriesWithMood, IsNonGratitudeDay)

\* a floor of a week and a day
gratitudeTooFewBelowEight(entriesWithMood, gratitudeDays, nonGratitudeDays) ==
  \/ Len(entriesWithMood) < 8
  \/ Len(gratitudeDays) = 0
  \/ Len(nonGratitudeDays) = 0

\* entriesWithMood.length < 7 || gratitudeDays.length === 0
\*   || nonGratitudeDays.length === 0
gratitudeTooFew(entriesWithMood, gratitudeDays, nonGratitudeDays) ==
  \/ Len(entriesWithMood) < 7
  \/ Len(gratitudeDays) = 0
  \/ Len(nonGratitudeDays) = 0

\* days.reduce((sum, entry) => sum + entry.moodValue!, 0) over the first n
RECURSIVE sumMoodValues(_, _)
sumMoodValues(days, n) ==
  IF n = 0 THEN 0 ELSE sumMoodValues(days, n - 1) + days[n].moodValue

\* the mean that leaves the last day out of the sum
averageMoodOfAllButLast(days) ==
  FDiv(FromInt(sumMoodValues(days, Len(days) - 1)), FromInt(Len(days)))

\* days.reduce(...) / days.length
averageMoodOf(days) ==
  FDiv(FromInt(sumMoodValues(days, Len(days))), FromInt(Len(days)))

\* the field mood of a data point, which is there when the entry has it
MoodFieldOf(entry) ==
  IF Has(entry, "mood") THEN [mood |-> entry.mood] ELSE << >>

withGratitudePoints(gratitudeDays) ==
  [i \in 1..Len(gratitudeDays) |->
     MoodFieldOf(gratitudeDays[i])
       @@ [date |-> gratitudeDays[i].date,
           moodValue |-> gratitudeDays[i].moodValue,
           itemCount |-> gratitudeDays[i].gratitudeItemCount]]

withoutGratitudePoints(nonGratitudeDays) ==
  [i \in 1..Len(nonGratitudeDays) |->
     MoodFieldOf(nonGratitudeDays[i])
       @@ [date |-> nonGratitudeDays[i].date,
           moodValue |-> nonGratitudeDays[i].moodValue]]

\* the object returned past the floor, from the two averages
gratitudeResult(gratitudeDays, nonGratitudeDays, avgWith, avgWithout) ==
  [hasEnoughData |-> TRUE,
   impact |-> FSub(avgWith, avgWithout),
   avgMoodWithGratitude |-> avgWith,
   avgMoodWithoutGratitude |-> avgWithout,
   withGratitudeDays |-> Len(gratitudeDays),
   withoutGratitudeDays |-> Len(nonGratitudeDays),
   dataPoints |-> [withGratitude |-> withGratitudePoints(gratitudeDays),
                   withoutGratitude |-> withoutGratitudePoints(nonGratitudeDays)]]

gratitudeImpactOf(entriesWithMood, gratitudeDays, nonGratitudeDays) ==
  IF gratitudeTooFew(entriesWithMood, gratitudeDays, nonGratitudeDays)
  THEN [hasEnoughData |-> FALSE, impact |-> Zero,
        avgMoodWithGratitude |-> Zero, avgMoodWithoutGratitude |-> Zero]
  ELSE gratitudeResult(gratitudeDays, nonGratitudeDays,
                       averageMoodOf(gratitudeDays),
                       averageMoodOf(nonGratitudeDays))

gratitudeSplit(entriesWithMood) ==
  gratitudeImpactOf(entriesWithMood, gratitudeDaysOf(entriesWithMood),
                    nonGratitudeDaysOf(entriesWithMood))

calculateGratitudeImpact(entries) == gratitudeSplit(entriesWithMoodOf(entries))

(***************************************************************************)
(* analyzeMealImpact.  allMeals and mealToMoods are kept as one sequence   *)
(* of the meals in the order in which the Set received them, each with     *)
(* the moods pushed for it.                                                *)
(***************************************************************************)
\* entry.moodValue !== undefined && entry.mealCount !== undefined
\*   && entry.mealCount > 0
HasMoodAndMeals(entry) ==
  Has(entry, "moodValue") /\ Has(entry, "mealCount") /\ entry.mealCount > 0

mealEntriesWithBoth(entries) == SelectSeq(entries, HasMoodAndMeals)

\* a floor one record lower
mealTooFewBelowThirteen(entriesWithBoth) == Len(entriesWithBoth) < 13

\* entriesWithBoth.length < 14
mealTooFew(entriesWithBoth) == Len(entriesWithBoth) < 14

\* String.prototype.trim
RECURSIVE trimStart(_)
trimStart(text) ==
  IF Len(text) > 0 /\ text[1] \in WhiteSpace THEN trimStart(Tail(text))
  ELSE text

RECURSIVE trimEnd(_)
trimEnd(text) ==
  IF Len(text) > 0 /\ text[Len(text)] \in WhiteSpace
  THEN trimEnd(SubSeq(text, 1, Len(text) - 1))
  ELSE text

trim(text) == trimEnd(trimStart(text))

LowerCaseOf ==
  [A |-> "a", B |-> "b", C |-> "c", D |-> "d", E |-> "e", F |-> "f",
   G |-> "g", H |-> "h", I |-> "i", J |-> "j", K |-> "k", L |-> "l",
   M |-> "m", N |-> "n", O |-> "o", P |-> "p", Q |-> "q", R |-> "r",
   S |-> "s", T |-> "t", U |-> "u", V |-> "v", W |-> "w", X |-> "x",
   Y |-> "y", Z |-> "z"]

\* String.prototype.toLowerCase
toLowerCase(text) ==
  [i \in 1..Len(text) |->
     IF text[i] \in DOMAIN LowerCaseOf THEN LowerCaseOf[text[i]] ELSE text[i]]

\* a name taken as it is written
mealNameAsWritten(segment) == segment

\* m.trim().toLowerCase()
mealNameOf(segment) == toLowerCase(trim(segment))

\* foodEntry.meals.split(',').map(...)
mealNamesOf(segments) == [i \in 1..Len(segments) |-> mealNameOf(segments[i])]

\* entriesWithBoth.find(e => e.date === date), as an index or 0
FindByDate(entriesWithBoth, date) ==
  IF \E i \in 1..Len(entriesWithBoth) : entriesWithBoth[i].date = date
  THEN CHOOSE i \in 1..Len(entriesWithBoth) :
         /\ entriesWithBoth[i].date = date
         /\ \A j \in 1..(i - 1) : entriesWithBoth[j].date # date
  ELSE 0

MealIndex(mealMoods, meal) ==
  IF \E i \in 1..Len(mealMoods) : mealMoods[i].meal = meal
  THEN CHOOSE i \in 1..Len(mealMoods) : mealMoods[i].meal = meal
  ELSE 0

\* allMeals.add(meal); mealToMoods[meal].push(moodValue), for a meal of
\* index i, or 0 for a meal that is new
pushMood(mealMoods, meal, moodValue, i) ==
  IF i = 0 THEN Append(mealMoods, [meal |-> meal, moods |-> <<moodValue>>])
  ELSE [mealMoods EXCEPT ![i].moods = Append(@, moodValue)]

\* the body of meals.forEach
addMeal(mealMoods, meal, moodValue) ==
  pushMood(mealMoods, meal, moodValue, MealIndex(mealMoods, meal))

\* meals.forEach, its first n callbacks
RECURSIVE addMeals(_, _, _, _)
addMeals(mealMoods, meals, n, moodValue) ==
  IF n = 0 THEN mealMoods
  ELSE addMeal(addMeals(mealMoods, meals, n - 1, moodValue), meals[n],
               moodValue)

\* the callback of foodEntries.forEach, given what find returned
addFoodEntry(mealMoods, foodEntry, entriesWithBoth, found) ==
  IF Done(mealMoods) /\ found # 0
  THEN addMeals(mealMoods, mealNamesOf(split(foodEntry.meals, ",")),
                Len(split(foodEntry.meals, ",")),
                entriesWithBoth[found].moodValue)
  ELSE mealMoods

\* foodEntries.forEach, its callbacks first to last: those of the first
\* half of the entries, then those of the rest
RECURSIVE forEachFood(_, _, _, _, _)
RECURSIVE forEachFoodRest(_, _, _, _, _)
forEachFood(items, first, last, entriesWithBoth, mealMoods) ==
  IF first > last THEN mealMoods
  ELSE IF first = last
  THEN addFoodEntry(mealMoods, items[first], entriesWithBoth,
                    FindByDate(entriesWithBoth, items[first].date))
  ELSE forEachFoodRest(items, (first + last) \div 2 + 1, last,
                       entriesWithBoth,
                       forEachFood(items, first, (first + last) \div 2,
                                   entriesWithBoth, mealMoods))

forEachFoodRest(items, first, last, entriesWithBoth, mealMoods) ==
  IF Done(mealMoods)
  THEN forEachFood(items, first, last, entriesWithBoth, mealMoods)
  ELSE mealMoods

\* the object that map makes of a meal (moods is never empty: a meal
\* enters the Set together with its first mood)
mealPatternOf(mealMood) ==
  [meal |-> mealMood.meal,
   occurrences |-> Len(mealMood.moods),
   avgMood |-> IF Len(mealMood.moods) > 0
               THEN FDiv(FromInt(sumOf(mealMood.moods, Len(mealMood.moods))),
                         FromInt(Len(mealMood.moods)))
               ELSE Zero]

\* Array.from(allMeals).map(...), its first n elements
RECURSIVE mapMealPatterns(_, _)
mapMealPatterns(mealMoods, n) ==
  IF n = 0 THEN << >>
  ELSE Append(mapMealPatterns(mealMoods, n - 1), mealPatternOf(mealMoods[n]))

\* a sort that leaves the patterns in the order of the Set
InsertByAvgMoodUnsorted(sorted, pattern) == Append(sorted, pattern)

\* mealPatterns.sort((a, b) => b.avgMood - a.avgMood): a stable insertion
\* of each pattern behind the patterns whose average is not lower
RECURSIVE InsertByAvgMood(_, _)
InsertByAvgMood(sorted, pattern) ==
  IF Len(sorted) = 0 THEN <<pattern>>
  ELSE IF FCmp(sorted[Len(sorted)].avgMood, pattern.avgMood) < 0
       THEN Append(InsertByAvgMood(SubSeq(sorted, 1, Len(sorted) - 1), pattern),
                   sorted[Len(sorted)])
       ELSE Append(sorted, pattern)

\* the first n patterns in their sorted order
RECURSIVE sortByAvgMood(_, _)
sortByAvgMood(patterns, n) ==
  IF n = 0 THEN << >>
  ELSE InsertByAvgMood(sortByAvgMood(patterns, n - 1), patterns[n])

\* a filter that lets a meal of two occurrences through
OftenEnoughFromTwo(pattern) == pattern.occurrences >= 2

\* m => m.occurrences >= 3
OftenEnough(pattern) == pattern.occurrences >= 3

sortedMealPatterns(patterns) ==
  SelectSeq(sortByAvgMood(patterns, Len(patterns)), OftenEnough)

mealPatternsOf(mealMoods) ==
  sortedMealPatterns(mapMealPatterns(mealMoods, Len(mealMoods)))

\* a name that a lookup in mealToMoods finds in Object.prototype: the
\* members whose names are in lower case
InheritedMealNames ==
  {<<"c", "o", "n", "s", "t", "r", "u", "c", "t", "o", "r">>,
   <<"_", "_", "p", "r", "o", "t", "o", "_", "_">>}

\* the callback of foodEntries.forEach raises a TypeError: the entry of a
\* date that find returns has no meals to split, or one of its meals has
\* the name of an inherited member, which is truthy and has no push
foodEntryRaises(foodEntry, entriesWithBoth) ==
  /\ FindByDate(entriesWithBoth, foodEntry.date) # 0
  /\ \/ ~Has(foodEntry, "meals")
     \/ \E i \in 1..Len(split(foodEntry.meals, ",")) :
          mealNameOf(split(foodEntry.meals, ",")[i]) \in InheritedMealNames

\* past the floor, foodEntries.forEach raises a TypeError: foodEntries is
\* no array, or a callback raises
mealImpactRaisesOn(entriesWithBoth, foodList) ==
  /\ ~mealTooFew(entriesWithBoth)
  /\ \/ ~foodList.array
     \/ \E i \in 1..Len(foodList.items) :
          foodEntryRaises(foodList.items[i], entriesWithBoth)

analyzeMealImpactRaises(entries, foodList) ==
  mealImpactRaisesOn(mealEntriesWithBoth(entries), foodList)

mealImpactOf(entriesWithBoth, foodList) ==
  IF mealTooFew(entriesWithBoth)
  THEN [hasEnoughData |-> FALSE, mealPatterns |-> << >>]
  ELSE [hasEnoughData |-> TRUE,
        mealPatterns |->
          mealPatternsOf(forEachFood(foodList.items, 1,
                                     Len(foodList.items), entriesWithBoth,
                                     << >>))]

\* the result of a call that does not raise
analyzeMealImpact(entries, foodList) ==
  mealImpactOf(mealEntriesWithBoth(entries), foodList)

(***************************************************************************)
(* combineDailyEntries applied to any five lists of up to MaxEntries rows  *)
(* in all, over three dates.                                               *)
(***************************************************************************)
MaxEntries == 3

Dates == {1, 2, 3}

MoodRows == [date : Dates, mood : {"great"}]

SleepRows == [date : Dates, hours_slept : {65, 80}, sleep_quality : {4}]

WaterRows == [date : Dates, cups : {8}]

FoodRows == {[date |-> d, meals |-> <<"a", ",", "b">>] : d \in Dates}

GratitudeRows ==
  {[date |-> d, gratitude_items |-> <<"x", "\n", " ", "\n", "y">>] : d \in Dates}

\* the values of n rows a list parameter can take; an empty list may
\* also be a value that is no array
ListsOf(rows, n) ==
  IF n = 0 THEN {ArrayOf(<< >>), NotAnArray}
  ELSE {ArrayOf(items) : items \in [1..n -> rows]}

InitCombine ==
  /\ \E n \in [1..5 -> 0..MaxEntries] :
       /\ n[1] + n[2] + n[3] + n[4] + n[5] <= MaxEntries
       /\ moodEntries \in ListsOf(MoodRows, n[1])
       /\ sleepEntries \in ListsOf(SleepRows, n[2])
       /\ waterEntries \in ListsOf(WaterRows, n[3])
       /\ foodEntries \in ListsOf(FoodRows, n[4])
       /\ gratitudeEntries \in ListsOf(GratitudeRows, n[5])
  /\ combinedEntries = << >>
  /\ sleepCorrelation = sleepCorrelationDefault
  /\ waterCorrelation = waterCorrelationDefault
  /\ gratitudeImpact = gratitudeImpactDefault
  /\ mealImpact = mealImpactDefault
  /\ pc = "fetched"
  /\ OffPageIdle
  /\ RunAwaited

\* const combinedEntries = combineDailyEntries(...)
CombineEntries ==
  /\ pc = "fetched"
  /\ IF combineRaises(moodEntries, sleepEntries, waterEntries, foodEntries,
                      gratitudeEntries)
     THEN /\ pc' = "threw"
          /\ UNCHANGED combinedEntries
     ELSE /\ pc' = "combined"
          /\ combinedEntries' =
               combineDailyEntries(moodEntries, sleepEntries, waterEntries,
                                   foodEntries, gratitudeEntries)
  /\ UNCHANGED <<moodEntries, sleepEntries, waterEntries, foodEntries,
                 gratitudeEntries, sleepCorrelation, waterCorrelation,
                 gratitudeImpact, mealImpact>>
  /\ UNCHANGED offPage
  /\ UNCHANGED loadVars

\* the list with its rows i and i + 1 exchanged
SwapRows(list, i) ==
  [list EXCEPT !.items = [@ EXCEPT ![i] = list.items[i + 1],
                                   ![i + 1] = list.items[i]]]

\* the same rows arrive with two neighbours of one list exchanged and are
\* combined again
RecombineReordered ==
  /\ pc \in {"combined", "recombined"}
  /\ \E k \in 1..5 :
       LET lists == <<moodEntries, sleepEntries, waterEntries, foodEntries,
                      gratitudeEntries>>
       IN  \E i \in 1..(Len(lists[k].items) - 1) :
             LET new == [lists EXCEPT ![k] = SwapRows(lists[k], i)]
             IN  /\ moodEntries' = new[1]
                 /\ sleepEntries' = new[2]
                 /\ waterEntries' = new[3]
                 /\ foodEntries' = new[4]
                 /\ gratitudeEntries' = new[5]
                 /\ combinedEntries' =
                      combineDailyEntries(new[1], new[2], new[3], new[4], new[5])
  /\ pc' = "recombined"
  /\ UNCHANGED <<sleepCorrelation, waterCorrelation, gratitudeImpact,
                 mealImpact>>
  /\ UNCHANGED offPage
  /\ UNCHANGED loadVars

NextCombine == CombineEntries \/ RecombineReordered

SpecCombine == InitCombine /\ [][NextCombine]_vars

(***************************************************************************)
(* Properties of combineDailyEntries.                                      *)
(***************************************************************************)
InputLists ==
  <<moodEntries, sleepEntries, waterEntries, foodEntries, gratitudeEntries>>

Combined == pc \in {"combined", "recombined"}

\* the dates of the rows of the lists that are arrays
InputDates ==
  UNION {{InputLists[k].items[i].date : i \in 1..Len(InputLists[k].items)} :
           k \in {j \in 1..5 : InputLists[j].array}}

\* C8: the result of combineDailyEntries has exactly one record for each
\* date that occurs in some list and none for another date, and its
\* records are in strictly ascending order of date.
C8_OneRecordPerDateAscending ==
  Combined =>
    /\ {combinedEntries[i].date : i \in 1..Len(combinedEntries)} = InputDates
    /\ \A i \in 1..(Len(combinedEntries) - 1) :
         combinedEntries[i].date < combinedEntries[i + 1].date

\* three rows on two dates, a list whose rows arrive latest first, and a
\* date shared by two lists
C8_Witness ==
  /\ pc = "combined"
  /\ Len(combinedEntries) = 2
  /\ \E k \in 1..5 :
       /\ Len(InputLists[k].items) = 2
       /\ InputLists[k].items[1].date > InputLists[k].items[2].date
  /\ \E k, l \in 1..5 :
       /\ k # l
       /\ Len(InputLists[k].items) > 0
       /\ Len(InputLists[l].items) > 0
       /\ InputLists[k].items[1].date = InputLists[l].items[1].date

\* rows of one list that share a date are the same row
NoConflictingRows(list) ==
  \A i, j \in 1..Len(list.items) :
     list.items[i].date = list.items[j].date => list.items[i] = list.items[j]

\* C9 as stated: combining the same five lists again with the rows of a
\* list in another order returns the same records in the same order.
C9_AnyReordering ==
  [][(Combined /\ pc' = "recombined") => combinedEntries' = combinedEntries]_vars

\* C9 as amended: the same, for lists in which the rows that share a date
\* are the same row.
C9_ReorderingWithoutConflicts ==
  [][(/\ Combined
      /\ pc' = "recombined"
      /\ \A k \in 1..5 : NoConflictingRows(InputLists[k]))
     => combinedEntries' = combinedEntries]_vars

\* rows were exchanged and combined again: a list holds rows of two dates,
\* no list holds conflicting rows, and two lists contribute
C9_Witness ==
  /\ pc = "recombined"
  /\ \A k \in 1..5 : NoConflictingRows(InputLists[k])
  /\ \E k \in 1..5 :
       /\ Len(InputLists[k].items) = 2
       /\ InputLists[k].items[1].date # InputLists[k].items[2].date
  /\ Cardinality({k \in 1..5 : Len(InputLists[k].items) > 0}) = 2
  /\ Len(combinedEntries) >= 2

\* the list itself when it is an array, the empty array otherwise
AsArray(list) == IF list.array THEN list ELSE ArrayOf(<< >>)

\* C10: combineDailyEntries raises no error; a value that is no array in
\* place of a list gives the result the empty array gives there, and five
\* empty or absent lists give the empty result.
C10_Totality ==
  /\ pc # "threw"
  /\ pc = "combined" =>
       /\ combinedEntries =
            combineDailyEntries(AsArray(moodEntries), AsArray(sleepEntries),
                                AsArray(waterEntries), AsArray(foodEntries),
                                AsArray(gratitudeEntries))
       /\ (\A k \in 1..5 : Len(InputLists[k].items) = 0)
            => combinedEntries = << >>

\* a value that is no array was passed for one list while other lists
\* held rows
C10_Witness ==
  /\ pc = "combined"
  /\ \E k \in 1..5 : ~InputLists[k].array
  /\ Len(combinedEntries) > 0

(***************************************************************************)
(* combineDailyEntries applied to up to MaxRows rows in all, over two      *)
(* dates, with every mood label, a label outside the table, a label that   *)
(* names a member of Object.prototype, and meals and gratitude texts that  *)
(* are absent, empty, of one segment and of several.                       *)
(***************************************************************************)
MaxRows == 2

FieldDates == {1, 2}

Labels == Moods \cup {"meh", "constructor"}

MoodRowsAny == [date : FieldDates, mood : Labels]

MealTexts ==
  {<< >>, <<"a">>, <<"a", ",", "b">>, <<",">>, <<"a", ",", " ", ",", "b">>}

\* meals is a nullable text column
FoodRowsAny ==
  [date : FieldDates, meals : MealTexts] \cup {[date |-> d] : d \in FieldDates}

GratitudeTexts ==
  {<< >>, <<"x">>, <<" ">>, <<"\n">>, <<"x", "\n", "y">>,
   <<"x", "\n", " ", "\n", "y", "\n">>}

\* gratitude_items is a nullable text column
GratitudeRowsAny ==
  [date : FieldDates, gratitude_items : GratitudeTexts]
    \cup {[date |-> d] : d \in FieldDates}

SleepRowsAny == {row \in SleepRows : row.date \in FieldDates}

WaterRowsAny == {row \in WaterRows : row.date \in FieldDates}

ArraysOf(rows, n) == {ArrayOf(items) : items \in [1..n -> rows]}

InitFields ==
  /\ \E n \in [1..5 -> 0..MaxRows] :
       /\ n[1] + n[2] + n[3] + n[4] + n[5] <= MaxRows
       /\ moodEntries \in ArraysOf(MoodRowsAny, n[1])
       /\ sleepEntries \in ArraysOf(SleepRowsAny, n[2])
       /\ waterEntries \in ArraysOf(WaterRowsAny, n[3])
       /\ foodEntries \in ArraysOf(FoodRowsAny, n[4])
       /\ gratitudeEntries \in ArraysOf(GratitudeRowsAny, n[5])
  /\ combinedEntries = << >>
  /\ sleepCorrelation = sleepCorrelationDefault
  /\ waterCorrelation = waterCorrelationDefault
  /\ gratitudeImpact = gratitudeImpactDefault
  /\ mealImpact = mealImpactDefault
  /\ pc = "fetched"
  /\ OffPageIdle
  /\ RunAwaited

NextFields == CombineEntries

SpecFields == InitFields /\ [][NextFields]_vars

(***************************************************************************)
(* Properties of the fields of the combined records.                       *)
(***************************************************************************)
OwnedBy ==
  << {"mood", "moodValue"}, {"sleepHours", "sleepQuality"}, {"waterCups"},
     {"mealCount"}, {"hasGratitude", "gratitudeItemCount"} >>

Restrict(obj, fields) == [f \in (DOMAIN obj) \cap fields |-> obj[f]]

\* the five lists with all but list k empty
OnlyList(k) == [j \in 1..5 |-> IF j = k THEN InputLists[j] ELSE ArrayOf(<< >>)]

\* what combineDailyEntries returns for list k alone
Alone(k) ==
  combineDailyEntries(OnlyList(k)[1], OnlyList(k)[2], OnlyList(k)[3],
                      OnlyList(k)[4], OnlyList(k)[5])

\* the record of a date, or a record of the date alone
RecordOf(entries, date) ==
  IF \E i \in 1..Len(entries) : entries[i].date = date
  THEN entries[CHOOSE i \in 1..Len(entries) : entries[i].date = date]
  ELSE [date |-> date]

\* C11: a combined record has the date and fields owned by the lists, and
\* the fields a list owns are in it exactly as they are when that list is
\* combined alone: absent when the list has no row of the date, and not
\* changed by the rows of another list.
C11_FieldOwnership ==
  pc = "combined" =>
    \A i \in 1..Len(combinedEntries) :
       /\ DOMAIN combinedEntries[i] \subseteq
            {"date"} \cup UNION {OwnedBy[k] : k \in 1..5}
       /\ \A k \in 1..5 :
            Restrict(combinedEntries[i], OwnedBy[k])
              = Restrict(RecordOf(Alone(k), combinedEntries[i].date), OwnedBy[k])

\* a date with a row of the food list and, processed before it, a row of
\* the mood list, and no row of the water list
C11_Witness ==
  /\ pc = "combined"
  /\ \E i \in 1..Len(combinedEntries) :
       /\ Has(combinedEntries[i], "moodValue")
       /\ Has(combinedEntries[i], "mealCount")
       /\ ~Has(combinedEntries[i], "waterCups")
       /\ Len(waterEntries.items) = 0

\* the row of a date that a list holds last
LastOf(list, date) ==
  list.items[CHOOSE i \in 1..Len(list.items) :
               /\ list.items[i].date = date
               /\ \A j \in (i + 1)..Len(list.items) : list.items[j].date # date]

HasRowOf(list, date) == \E i \in 1..Len(list.items) : list.items[i].date = date

\* the number of segments that the separator cuts a text into
SegmentCount(text, sep) ==
  1 + Cardinality({i \in 1..Len(text) : text[i] = sep})

\* position i holds the first character of its line that is not blank
FirstInkOfLine(text, i) ==
  /\ text[i] \notin {" ", "\t", "\n"}
  /\ \A j \in 1..(i - 1) :
       text[j] \in {" ", "\t", "\n"} \/ \E k \in j..(i - 1) : text[k] = "\n"

\* the number of lines of a text that are not blank
InkedLines(text) ==
  Cardinality({i \in 1..Len(text) : FirstInkOfLine(text, i)})

TextOf(row, field) == IF Has(row, field) THEN row[field] ELSE << >>

\* C12: the record of a date with a food row has as mealCount the number
\* of comma-separated segments of the meals text of the row, and 0 when
\* the text is empty or absent; the record of a date with a gratitude row
\* has hasGratitude true and as gratitudeItemCount the number of
\* newline-separated segments of gratitude_items that are not blank, 0
\* when the text is empty or absent.
C12_DerivedCounts ==
  pc = "combined" =>
    \A date \in FieldDates :
       /\ HasRowOf(foodEntries, date) =>
            RecordOf(combinedEntries, date).mealCount =
              IF TextOf(LastOf(foodEntries, date), "meals") = << >> THEN 0
              ELSE SegmentCount(LastOf(foodEntries, date).meals, ",")
       /\ HasRowOf(gratitudeEntries, date) =>
            /\ RecordOf(combinedEntries, date).hasGratitude = TRUE
            /\ RecordOf(combinedEntries, date).gratitudeItemCount =
                 InkedLines(TextOf(LastOf(gratitudeEntries, date),
                                   "gratitude_items"))

\* meals of three segments, one of them blank, and gratitude items of
\* four segments, two of them blank
C12_Witness ==
  /\ pc = "combined"
  /\ \E i \in 1..Len(combinedEntries) :
       /\ Has(combinedEntries[i], "mealCount")
       /\ combinedEntries[i].mealCount = 3
  /\ \E i \in 1..Len(combinedEntries) :
       /\ Has(combinedEntries[i], "gratitudeItemCount")
       /\ combinedEntries[i].gratitudeItemCount = 2
       /\ \E j \in 1..Len(gratitudeEntries.items) :
            Len(gratitudeEntries.items[j].gratitude_items) = 6

\* the record is a qualifying record of one of the four analyses
QualifiesSomewhere(record) ==
  \/ HasBoth("sleep", record)
  \/ HasBoth("water", record)
  \/ HasMood(record)
  \/ HasMoodAndMeals(record)

MoodScores == [great |-> 5, good |-> 4, neutral |-> 3, bad |-> 2, awful |-> 1]

\* C13: the record of a date whose mood entry has one of the five labels
\* has the moodValue 5, 4, 3, 2, 1 of the label; the record of a date
\* whose mood entry has another label has no moodValue and is a
\* qualifying record of none of the four analyses; so every moodValue
\* there is is a whole number from 1 to 5.
C13_MoodScoreMapping ==
  pc = "combined" =>
    \A date \in FieldDates :
       HasRowOf(moodEntries, date) =>
         IF LastOf(moodEntries, date).mood \in DOMAIN MoodScores
         THEN /\ Has(RecordOf(combinedEntries, date), "moodValue")
              /\ RecordOf(combinedEntries, date).moodValue
                   = MoodScores[LastOf(moodEntries, date).mood]
              /\ RecordOf(combinedEntries, date).moodValue \in 1..5
         ELSE /\ ~Has(RecordOf(combinedEntries, date), "moodValue")
              /\ ~QualifiesSomewhere(RecordOf(combinedEntries, date))

(***************************************************************************)
(* loadAndAnalyzeData of the statistics page on the rows of up to MaxDays  *)
(* days.  Every day is one of the two or three kinds of day of a family;   *)
(* a kind of day gives the fields of the rows the user saved for it, and   *)
(* a table the user left alone that day has no row for it.  A family of    *)
(* three kinds runs for one day less than a family of two.                 *)
(***************************************************************************)
MaxDays == 6

Families ==
  << \* mood and factors rise together
     << [mood |-> "neutral", hours_slept |-> 65, sleep_quality |-> 6, cups |-> 4],
        [mood |-> "great", hours_slept |-> 80, sleep_quality |-> 6, cups |-> 8,
         meals |-> <<"a", ",", "b">>] >>,
     \* the same sleep and water every day
     << [mood |-> "good", hours_slept |-> 71, sleep_quality |-> 6, cups |-> 6],
        [mood |-> "great", hours_slept |-> 71, sleep_quality |-> 6, cups |-> 6] >>,
     \* the same mood every day, in two groups
     << [mood |-> "good", hours_slept |-> 95, sleep_quality |-> 6, cups |-> 8,
         gratitude_items |-> <<"x", "\n", " ", "\n", "y">>],
        [mood |-> "good", hours_slept |-> 65, sleep_quality |-> 6, cups |-> 3] >>,
     \* days without a mood
     << [mood |-> "good", hours_slept |-> 80, sleep_quality |-> 6, cups |-> 5],
        [hours_slept |-> 60, sleep_quality |-> 6, cups |-> 3] >>,
     \* days without sleep
     << [mood |-> "bad", hours_slept |-> 55, sleep_quality |-> 6, cups |-> 2],
        [mood |-> "great", cups |-> 9] >>,
     \* mood falls as the factors rise
     << [mood |-> "great", hours_slept |-> 50, sleep_quality |-> 6, cups |-> 2],
        [mood |-> "awful", hours_slept |-> 90, sleep_quality |-> 6, cups |-> 9] >>,
     \* hours on the two sides of a half
     << [mood |-> "good", hours_slept |-> 74, sleep_quality |-> 6, cups |-> 0],
        [mood |-> "bad", hours_slept |-> 75, sleep_quality |-> 6, cups |-> 10] >>,
     \* two kinds of day in one group, a third in another
     << [mood |-> "neutral", hours_slept |-> 65, sleep_quality |-> 6, cups |-> 7],
        [mood |-> "great", hours_slept |-> 70, sleep_quality |-> 6, cups |-> 7],
        [mood |-> "good", hours_slept |-> 95, sleep_quality |-> 6, cups |-> 10] >> >>

\* the days latest first, the order of every fetch, each with its date
DayRows(days) ==
  [i \in 1..Len(days) |->
     days[Len(days) + 1 - i] @@ [date |-> Len(days) + 1 - i]]

\* the rows a fetch returns from the table that holds the fields
Fetched(days, fields) ==
  LET Test(row) == fields \subseteq DOMAIN row
      kept == SelectSeq(DayRows(days), Test)
  IN  ArrayOf([i \in 1..Len(kept) |->
                 [f \in fields \cup {"date"} |-> kept[i][f]]])

InitCorr ==
  /\ \E f \in 1..Len(Families) :
       \E n \in 0..(MaxDays + 2 - Len(Families[f])) :
         \E kind \in [1..n -> 1..Len(Families[f])] :
           LET days == [d \in 1..n |-> Families[f][kind[d]]]
           IN  /\ moodEntries = Fetched(days, {"mood"})
               /\ sleepEntries = Fetched(days, {"hours_slept", "sleep_quality"})
               /\ waterEntries = Fetched(days, {"cups"})
               /\ foodEntries = Fetched(days, {"meals"})
               /\ gratitudeEntries = Fetched(days, {"gratitude_items"})
  /\ combinedEntries = << >>
  /\ sleepCorrelation = sleepCorrelationDefault
  /\ waterCorrelation = waterCorrelationDefault
  /\ gratitudeImpact = gratitudeImpactDefault
  /\ mealImpact = mealImpactDefault
  /\ pc = "fetched"
  /\ OffPageIdle
  /\ RunAwaited

\* Array.isArray(list) ? list : []
OrEmpty(list) == IF ArrayIsArray(list) THEN list ELSE ArrayOf(<< >>)

\* the four results are stored after the four calls have returned; a call
\* that raises leaves the catch block to store the error instead
StoreResultsOf(combined, food) ==
  IF analyzeMealImpactRaises(combined, food)
  THEN /\ pc' = "failed"
       /\ error' = [message |-> "TypeError"]
       /\ isLoading' = FALSE
       /\ UNCHANGED <<sleepCorrelation, waterCorrelation, gratitudeImpact,
                      mealImpact>>
  ELSE /\ pc' = "analyzed"
       /\ isLoading' = FALSE
       /\ UNCHANGED error
       /\ sleepCorrelation' = calculateMoodSleepCorrelation(combined)
       /\ waterCorrelation' = calculateMoodWaterCorrelation(combined)
       /\ gratitudeImpact' = calculateGratitudeImpact(combined)
       /\ mealImpact' = analyzeMealImpact(combined, food)

StoreResults(combined) == StoreResultsOf(combined, foodEntries)

\* the part of loadAndAnalyzeData that follows the fetches
LoadAndAnalyzeData ==
  /\ pc = "fetched"
  /\ combinedEntries' =
       combineDailyEntries(OrEmpty(moodEntries), OrEmpty(sleepEntries),
                           OrEmpty(waterEntries), OrEmpty(foodEntries),
                           OrEmpty(gratitudeEntries))
  /\ StoreResults(combinedEntries')
  /\ UNCHANGED <<moodEntries, sleepEntries, waterEntries, foodEntries,
                 gratitudeEntries, timeRange, runs>>
  /\ UNCHANGED offPage

NextCorr == LoadAndAnalyzeData

SpecCorr == InitCorr /\ [][NextCorr]_vars

(***************************************************************************)
(* Properties of the two correlation functions, stated on the records the  *)
(* analysis was given and the results it stored.  The quantities of a      *)
(* claim are worked out here from the combined records, by counting and    *)
(* by exact integer arithmetic.                                            *)
(***************************************************************************)
Analyzed == pc = "analyzed"

Kinds == {"sleep", "water"}

ResultOf(kind) == IF kind = "sleep" THEN sleepCorrelation ELSE waterCorrelation

\* the positions of the records with a mood score and the factor
Qualifying(kind) ==
  {i \in 1..Len(combinedEntries) :
     /\ "moodValue" \in DOMAIN combinedEntries[i]
     /\ (IF kind = "sleep" THEN "sleepHours" ELSE "waterCups")
          \in DOMAIN combinedEntries[i]}

Enough(kind) == Cardinality(Qualifying(kind)) >= 5

MoodAt(i) == combinedEntries[i].moodValue

\* the factor of a record: sleep hours in tenths, or cups
FactorAt(kind, i) ==
  IF kind = "sleep" THEN combinedEntries[i].sleepHours
                    ELSE combinedEntries[i].waterCups

OptimalOf(kind) ==
  IF kind = "sleep" THEN sleepCorrelation.optimalSleepHours
                    ELSE waterCorrelation.optimalWaterCups

BestOf(kind) ==
  IF kind = "sleep" THEN sleepCorrelation.bestMoodAfterSleep
                    ELSE waterCorrelation.bestMoodAfterWater

\* C1: with fewer than 5 records that have both a mood score and the
\* factor, either function returns hasEnoughData false, correlation 0, the
\* optimal value 0 and no best record; with 5 or more it returns
\* hasEnoughData true.
C1_MinimumData ==
  Analyzed =>
    \A kind \in Kinds :
      /\ ~Enough(kind) =>
           /\ ResultOf(kind).hasEnoughData = FALSE
           /\ ResultOf(kind).correlation = Zero
           /\ OptimalOf(kind) = 0
           /\ BestOf(kind) = Null
      /\ Enough(kind) => ResultOf(kind).hasEnoughData = TRUE

\* four days with sleep and five with water: one function is under the
\* floor and the other on it
C1_Witness ==
  /\ Analyzed
  /\ Cardinality(Qualifying("sleep")) = 4
  /\ Cardinality(Qualifying("water")) = 5
  /\ waterCorrelation.hasEnoughData

MoodsEqual(kind) ==
  \A i, j \in Qualifying(kind) : MoodAt(i) = MoodAt(j)

FactorsEqual(kind) ==
  \A i, j \in Qualifying(kind) : FactorAt(kind, i) = FactorAt(kind, j)

\* C2: with at least 5 qualifying records of which all mood scores are
\* equal or all factor values are equal, the correlation returned is
\* exactly 0.
C2_ZeroVarianceClamp ==
  Analyzed =>
    \A kind \in Kinds :
      (Enough(kind) /\ (MoodsEqual(kind) \/ FactorsEqual(kind)))
        => ResultOf(kind).correlation = Zero

RECURSIVE SumOver(_, _)
SumOver(S, f) ==
  IF S = {} THEN 0
  ELSE LET i == CHOOSE i \in S : TRUE IN f[i] + SumOver(S \ {i}, f)

\* n * sum(m * f) - sum(m) * sum(f): the covariance of the mood scores and
\* the factors but for the positive factor n * n (and 10 for the tenths)
ScaledCovariance(kind) ==
  LET Q == Qualifying(kind)
      m == [i \in Q |-> MoodAt(i)]
      f == [i \in Q |-> FactorAt(kind, i)]
      mf == [i \in Q |-> MoodAt(i) * FactorAt(kind, i)]
  IN  Cardinality(Q) * SumOver(Q, mf) - SumOver(Q, m) * SumOver(Q, f)

SignOf(n) == IF n > 0 THEN 1 ELSE IF n < 0 THEN -1 ELSE 0

\* C3: with at least 5 qualifying records whose mood scores are not all
\* equal and whose factor values are not all equal, the correlation r
\* returned is a number with -1 <= r <= 1, and r has the sign of the
\* covariance.
C3_CorrelationRange ==
  Analyzed =>
    \A kind \in Kinds :
      (Enough(kind) /\ ~MoodsEqual(kind) /\ ~FactorsEqual(kind))
        => LET r == ResultOf(kind).correlation
           IN  /\ r.k = "num"
               /\ FCmp(r, FromInt(-1)) >= 0
               /\ FCmp(r, FromInt(1)) <= 0
               /\ FCmp(r, Zero) = SignOf(ScaledCovariance(kind))

AverageBucket(kind, average) ==
  IF kind = "sleep" THEN average.hours ELSE average.cups

\* C4: with at least 5 qualifying records, the optimal value returned is
\* the value of an entry of averages whose average mood is greater than or
\* equal to the average mood of every entry of averages.
C4_OptimalIsMaximum ==
  Analyzed =>
    \A kind \in Kinds :
      Enough(kind) =>
        LET averages == ResultOf(kind).averages
        IN  \E j \in 1..Len(averages) :
              /\ AverageBucket(kind, averages[j]) = OptimalOf(kind)
              /\ \A k \in 1..Len(averages) :
                   FCmp(averages[j].avgMood, averages[k].avgMood) >= 0

\* two groups of sleep hours, the second with the higher average
C4_Witness ==
  /\ Analyzed
  /\ Enough("sleep")
  /\ Len(sleepCorrelation.averages) = 2
  /\ FCmp(sleepCorrelation.averages[2].avgMood,
          sleepCorrelation.averages[1].avgMood) > 0
  /\ sleepCorrelation.optimalSleepHours = sleepCorrelation.averages[2].hours

\* the whole number nearest to the factor of a record, the upper one of
\* two that are as near, for sleep; the cups for water
BucketAt(kind, i) ==
  IF kind = "sleep"
  THEN CHOOSE h \in 0..25 :
         /\ 10 * h - 5 <= combinedEntries[i].sleepHours
         /\ combinedEntries[i].sleepHours < 10 * h + 5
  ELSE combinedEntries[i].waterCups

Buckets(kind) == {BucketAt(kind, i) : i \in Qualifying(kind)}

Members(kind, b) == {i \in Qualifying(kind) : BucketAt(kind, i) = b}

MoodSum(kind, b) ==
  SumOver(Members(kind, b), [i \in Members(kind, b) |-> MoodAt(i)])

\* the mean mood of bucket a is not below that of bucket b
MeanAtLeast(kind, a, b) ==
  MoodSum(kind, a) * Cardinality(Members(kind, b))
    >= MoodSum(kind, b) * Cardinality(Members(kind, a))

\* the buckets with the highest mean mood
TopBuckets(kind) ==
  {a \in Buckets(kind) : \A b \in Buckets(kind) : MeanAtLeast(kind, a, b)}

\* the bucket among B of the earliest qualifying record that is in one
FirstSeen(kind, B) ==
  LET first == CHOOSE i \in Qualifying(kind) :
                 /\ BucketAt(kind, i) \in B
                 /\ \A j \in Qualifying(kind) :
                      BucketAt(kind, j) \in B => i <= j
  IN  BucketAt(kind, first)

Smallest(B) == CHOOSE a \in B : \A b \in B : a <= b

Tie(kind) == Enough(kind) /\ Cardinality(TopBuckets(kind)) >= 2

\* C5 as stated: when several buckets tie for the highest average mood,
\* the optimal value returned is the tied bucket whose factor value occurs
\* earliest among the qualifying records.
C5_FirstSeenWins ==
  Analyzed =>
    \A kind \in Kinds :
      Tie(kind) => OptimalOf(kind) = FirstSeen(kind, TopBuckets(kind))

\* C5 as amended: when several buckets tie for the highest average mood,
\* the optimal value returned is the smallest of the tied bucket values.
C5_SmallestTiedBucketWins ==
  Analyzed =>
    \A kind \in Kinds :
      Tie(kind) => OptimalOf(kind) = Smallest(TopBuckets(kind))

\* two groups of sleep hours tie and the larger was seen first
C5_Witness ==
  /\ Analyzed
  /\ Tie("sleep")
  /\ FirstSeen("sleep", TopBuckets("sleep")) # Smallest(TopBuckets("sleep"))
  /\ sleepCorrelation.optimalSleepHours = Smallest(TopBuckets("sleep"))

\* C6: with at least 5 qualifying records, the best record returned is a
\* qualifying record whose mood score is the highest of all qualifying
\* records and whose factor value is the highest of the qualifying
\* records with that mood score.
C6_BestRecord ==
  Analyzed =>
    \A kind \in Kinds :
      Enough(kind) =>
        \E i \in Qualifying(kind) :
          /\ BestOf(kind) = combinedEntries[i]
          /\ \A j \in Qualifying(kind) :
               /\ MoodAt(j) <= MoodAt(i)
               /\ MoodAt(j) = MoodAt(i) => FactorAt(kind, j) <= FactorAt(kind, i)

\* the record that opens the sleep series has the highest mood score but
\* not the most hours among the records with it
C6_Witness ==
  /\ Analyzed
  /\ Enough("sleep")
  /\ LET first == CHOOSE i \in Qualifying("sleep") :
                    \A j \in Qualifying("sleep") : i <= j
     IN  /\ \A j \in Qualifying("sleep") : MoodAt(j) <= MoodAt(first)
         /\ \E j \in Qualifying("sleep") :
              /\ MoodAt(j) = MoodAt(first)
              /\ FactorAt("sleep", j) > FactorAt("sleep", first)
         /\ sleepCorrelation.bestMoodAfterSleep # combinedEntries[first]

\* the k-th of the qualifying positions
NthQualifying(kind, k) ==
  CHOOSE i \in Qualifying(kind) :
    Cardinality({j \in Qualifying(kind) : j <= i}) = k

\* C7: with at least 5 qualifying records, averages has one entry for
\* every bucket of a qualifying record and no other entry, the bucket of a
\* record being its sleep hours rounded to the nearest whole number or its
\* cups; the count of an entry is the number of qualifying records of its
\* bucket and at least 1, its avgMood is the mean of their mood scores,
\* the counts add up to the number of qualifying records, and dataPoints
\* is the qualifying records in their order.
C7_Bucketing ==
  Analyzed =>
    \A kind \in Kinds :
      Enough(kind) =>
        LET averages == ResultOf(kind).averages
            dataPoints == ResultOf(kind).dataPoints
            counts == [j \in 1..Len(averages) |-> averages[j].count]
        IN  /\ {AverageBucket(kind, averages[j]) : j \in 1..Len(averages)}
                 = Buckets(kind)
            /\ Len(averages) = Cardinality(Buckets(kind))
            /\ \A j \in 1..Len(averages) :
                 LET b == AverageBucket(kind, averages[j])
                 IN  /\ averages[j].count = Cardinality(Members(kind, b))
                     /\ averages[j].count >= 1
                     /\ averages[j].avgMood =
                          FDiv(FromInt(MoodSum(kind, b)),
                               FromInt(Cardinality(Members(kind, b))))
            /\ SumOver(1..Len(averages), counts)
                 = Cardinality(Qualifying(kind))
            /\ Len(dataPoints) = Cardinality(Qualifying(kind))
            /\ \A k \in 1..Len(dataPoints) :
                 LET entry == combinedEntries[NthQualifying(kind, k)]
                 IN  /\ dataPoints[k].date = entry.date
                     /\ dataPoints[k].mood = entry.mood
                     /\ dataPoints[k].moodValue = entry.moodValue
                     /\ dataPoints[k][FactorField(kind)] = entry[FactorField(kind)]

\* a day without sleep beside five days of sleep hours that end on a half
\* and go up, and water in two groups
C7_Witness ==
  /\ Analyzed
  /\ Enough("sleep")
  /\ Cardinality(Qualifying("sleep")) < Len(combinedEntries)
  /\ \E i \in Qualifying("sleep") : combinedEntries[i].sleepHours % 10 = 5
  /\ sleepCorrelation.averages[1].count >= 2
  /\ Enough("water")
  /\ Len(waterCorrelation.averages) = 2

(***************************************************************************)
(* loadAndAnalyzeData on the rows of a diary of up to MaxImpactDays days.  *)
(* A diary is a run of days of its first kind, then a run of its second,   *)
(* and so on; a kind of day gives the mood and the gratitude items saved   *)
(* for the day and the rows of the food table that bear its date, each     *)
(* with its meals text or, the column being nullable, without one.  A      *)
(* kind of day occurs at most `most` times.  No day has sleep or water.    *)
(***************************************************************************)
MaxImpactDays == 15

Oats == <<"o">>

Pizza == <<"p">>

Diaries ==
  << \* gratitude on the good days, none on the bad, and days without a mood
     << [day |-> [mood |-> "great", gratitude_items |-> <<"x">>],
         most |-> MaxImpactDays],
        [day |-> [mood |-> "awful"], most |-> MaxImpactDays],
        [day |-> [gratitude_items |-> <<"x", "\n", "y">>],
         most |-> MaxImpactDays] >>,
     \* two moods among the days with gratitude; one meal written three ways
     << [day |-> [mood |-> "great", gratitude_items |-> <<"x">>,
                  food |-> << [meals |-> Oats] >>],
         most |-> MaxImpactDays],
        [day |-> [mood |-> "neutral", gratitude_items |-> <<"x">>,
                  food |-> << [meals |-> <<" ", "O">>] >>],
         most |-> MaxImpactDays],
        [day |-> [mood |-> "bad",
                  food |-> << [meals |-> <<"p", ",", "o", " ">>] >>],
         most |-> MaxImpactDays],
        [day |-> [gratitude_items |-> <<"x">>,
                  food |-> << [meals |-> Oats] >>],
         most |-> 1] >>,
     \* oats on the best days and pizza on the worst, the pizza later
     << [day |-> [mood |-> "great", food |-> << [meals |-> Oats] >>],
         most |-> 2],
        [day |-> [mood |-> "good", food |-> << [meals |-> Oats] >>],
         most |-> 1],
        [day |-> [mood |-> "neutral", food |-> << [meals |-> <<"f">>] >>],
         most |-> MaxImpactDays],
        [day |-> [mood |-> "neutral", food |-> << [meals |-> Pizza] >>],
         most |-> 1],
        [day |-> [mood |-> "bad", food |-> << [meals |-> Pizza] >>],
         most |-> 2] >>,
     \* a rare meal on the best days; two rows of food on a day
     << [day |-> [mood |-> "great", food |-> << [meals |-> <<"r">>] >>],
         most |-> 3],
        [day |-> [mood |-> "good",
                  food |-> << [meals |-> <<"f", ",", "g">>],
                              [meals |-> <<"f">>] >>],
         most |-> MaxImpactDays],
        [day |-> [mood |-> "awful", gratitude_items |-> <<"x">>,
                  food |-> << [meals |-> <<"g", ",">>] >>],
         most |-> 2] >>,
     \* food on days without a mood, and rows without a meals text
     << [day |-> [mood |-> "good", food |-> << [meals |-> Oats] >>],
         most |-> MaxImpactDays],
        [day |-> [food |-> << [meals |-> Oats] >>], most |-> 2],
        [day |-> [mood |-> "great",
                  food |-> << [meals |-> Pizza], << >> >>],
         most |-> 1],
        [day |-> [mood |-> "great",
                  food |-> << << >>, [meals |-> Pizza] >>],
         most |-> 1] >>,
     \* a meal that has the name of a member of every object
     << [day |-> [mood |-> "good", food |-> << [meals |-> Oats] >>],
         most |-> MaxImpactDays],
        [day |-> [mood |-> "bad",
                  food |-> << [meals |-> <<"C", "o", "n", "s", "t", "r", "u",
                                           "c", "t", "o", "r">>] >>],
         most |-> 1] >> >>

RECURSIVE Total(_, _)
Total(counts, n) == IF n = 0 THEN 0 ELSE Total(counts, n - 1) + counts[n]

Least(a, b) == IF a < b THEN a ELSE b

\* the numbers of days of the first k kinds of a diary
RECURSIVE CountsOf(_, _)
CountsOf(diary, k) ==
  IF k = 0 THEN {<< >>}
  ELSE UNION {{Append(counts, m) :
                 m \in 0..Least(diary[k].most,
                                MaxImpactDays - Total(counts, k - 1))} :
              counts \in CountsOf(diary, k - 1)}

\* the days of the first k kinds, earliest first
RECURSIVE DaysOf(_, _, _)
DaysOf(diary, counts, k) ==
  IF k = 0 THEN << >>
  ELSE DaysOf(diary, counts, k - 1) \o [i \in 1..counts[k] |-> diary[k].day]

\* the rows of the food table of the first n of the days, each with the
\* date of its day
RECURSIVE FoodRowsOf(_, _)
FoodRowsOf(rows, n) ==
  IF n = 0 THEN << >>
  ELSE FoodRowsOf(rows, n - 1)
         \o (IF Has(rows[n], "food")
             THEN [j \in 1..Len(rows[n].food) |->
                     rows[n].food[j] @@ [date |-> rows[n].date]]
             ELSE << >>)

\* what fetchFoodEntries returns: the rows latest first
FetchedFood(days) == ArrayOf(FoodRowsOf(DayRows(days), Len(days)))

InitImpactOf(days) ==
  /\ moodEntries = Fetched(days, {"mood"})
  /\ sleepEntries = Fetched(days, {"hours_slept", "sleep_quality"})
  /\ waterEntries = Fetched(days, {"cups"})
  /\ foodEntries = FetchedFood(days)
  /\ gratitudeEntries = Fetched(days, {"gratitude_items"})

InitImpact ==
  /\ \E d \in 1..Len(Diaries) :
       \E counts \in CountsOf(Diaries[d], Len(Diaries[d])) :
         InitImpactOf(DaysOf(Diaries[d], counts, Len(Diaries[d])))
  /\ combinedEntries = << >>
  /\ sleepCorrelation = sleepCorrelationDefault
  /\ waterCorrelation = waterCorrelationDefault
  /\ gratitudeImpact = gratitudeImpactDefault
  /\ mealImpact = mealImpactDefault
  /\ pc = "fetched"
  /\ OffPageIdle
  /\ RunAwaited

NextImpact == LoadAndAnalyzeData

SpecImpact == InitImpact /\ [][NextImpact]_vars

(***************************************************************************)
(* Properties of calculateGratitudeImpact and analyzeMealImpact, stated on *)
(* the rows that were fetched, the records the analysis was given and the  *)
(* results it stored.                                                      *)
(***************************************************************************)
\* the positions of the records with a mood score
MoodDays ==
  {i \in 1..Len(combinedEntries) : Has(combinedEntries[i], "moodValue")}

\* those of them that have gratitude
GratitudeDays ==
  {i \in MoodDays : /\ Has(combinedEntries[i], "hasGratitude")
                    /\ combinedEntries[i].hasGratitude = TRUE}

GratitudeFloorMissed ==
  \/ Cardinality(MoodDays) < 7
  \/ GratitudeDays = {}
  \/ GratitudeDays = MoodDays

\* C14: calculateGratitudeImpact returns hasEnoughData false with impact
\* 0 and both averages 0 when fewer than 7 records have a mood score, or
\* no record with a mood score has gratitude, or every record with a mood
\* score has gratitude; in every other case it returns hasEnoughData true.
C14_GratitudeFloor ==
  Analyzed =>
    IF GratitudeFloorMissed
    THEN /\ gratitudeImpact.hasEnoughData = FALSE
         /\ gratitudeImpact.impact = Zero
         /\ gratitudeImpact.avgMoodWithGratitude = Zero
         /\ gratitudeImpact.avgMoodWithoutGratitude = Zero
    ELSE gratitudeImpact.hasEnoughData = TRUE

\* seven records or more, six of them with a mood score, some of the six
\* with gratitude and some without
C14_Witness ==
  /\ Analyzed
  /\ Len(combinedEntries) >= 7
  /\ Cardinality(MoodDays) = 6
  /\ GratitudeDays # {}
  /\ GratitudeDays # MoodDays
  /\ gratitudeImpact.hasEnoughData = FALSE

\* the sum of the mood scores of the records at the positions S
MoodTotal(S) == SumOver(S, [i \in S |-> combinedEntries[i].moodValue])

\* the distance of a and b
Gap(a, b) == IF BCmp(a, b) >= 0 THEN BSub(a, b) ELSE BSub(b, a)

\* x is a double nearest to the quotient total / n of two positive whole
\* numbers: x = m * 2^e with a mantissa m of 53 bits, and m * n is within
\* n / 2 of total * 2^-e
IsMeanOf(x, total, n) ==
  /\ x.k = "num"
  /\ x.s = 1
  /\ x.e <= 0
  /\ BBitLen(x.m) = MantBits
  /\ BCmp(BShl(Gap(BMul(x.m, BFromInt(n)), BShl(BFromInt(total), 0 - x.e)), 1),
          BFromInt(n)) <= 0

\* C15: when hasEnoughData is true, withGratitudeDays and
\* withoutGratitudeDays are the numbers of records with a mood score that
\* have gratitude and that have none, both at least 1 and together the
\* number of records with a mood score; the two averages are the means of
\* the mood scores of the two parts, and impact is the first average less
\* the second.  Days of mood 5 with gratitude and days of mood 1 without
\* give 5, 1 and 4.
C15_GratitudeImpact ==
  (Analyzed /\ gratitudeImpact.hasEnoughData) =>
    /\ gratitudeImpact.withGratitudeDays = Cardinality(GratitudeDays)
    /\ gratitudeImpact.withoutGratitudeDays
         = Cardinality(MoodDays \ GratitudeDays)
    /\ gratitudeImpact.withGratitudeDays >= 1
    /\ gratitudeImpact.withoutGratitudeDays >= 1
    /\ gratitudeImpact.withGratitudeDays + gratitudeImpact.withoutGratitudeDays
         = Cardinality(MoodDays)
    /\ IsMeanOf(gratitudeImpact.avgMoodWithGratitude,
                MoodTotal(GratitudeDays), Cardinality(GratitudeDays))
    /\ IsMeanOf(gratitudeImpact.avgMoodWithoutGratitude,
                MoodTotal(MoodDays \ GratitudeDays),
                Cardinality(MoodDays \ GratitudeDays))
    /\ gratitudeImpact.impact
         = FSub(gratitudeImpact.avgMoodWithGratitude,
                gratitudeImpact.avgMoodWithoutGratitude)
    /\ (\A i \in MoodDays :
          combinedEntries[i].moodValue
            = IF i \in GratitudeDays THEN 5 ELSE 1)
         => /\ gratitudeImpact.avgMoodWithGratitude = FromInt(5)
            /\ gratitudeImpact.avgMoodWithoutGratitude = FromInt(1)
            /\ gratitudeImpact.impact = FromInt(4)

\* four days of mood 5 with gratitude and four of mood 1 without
C15_Witness ==
  /\ Analyzed
  /\ gratitudeImpact.hasEnoughData
  /\ Cardinality(GratitudeDays) = 4
  /\ Cardinality(MoodDays) = 8
  /\ \A i \in MoodDays :
       combinedEntries[i].moodValue = IF i \in GratitudeDays THEN 5 ELSE 1
  /\ gratitudeImpact.impact = FromInt(4)

\* the positions of the records with a mood score and a meal
MealDays ==
  {i \in 1..Len(combinedEntries) :
     /\ Has(combinedEntries[i], "moodValue")
     /\ Has(combinedEntries[i], "mealCount")
     /\ combinedEntries[i].mealCount > 0}

\* C16: analyzeMealImpact returns hasEnoughData false and no meal patterns
\* when fewer than 14 combined records have a mood score and a mealCount
\* above 0, and hasEnoughData true otherwise.
C16_MealFloor ==
  Analyzed =>
    IF Cardinality(MealDays) < 14
    THEN /\ mealImpact.hasEnoughData = FALSE
         /\ mealImpact.mealPatterns = << >>
    ELSE mealImpact.hasEnoughData = TRUE

\* fourteen records or more with a meal, thirteen of them with a mood score
C16_Witness ==
  /\ Analyzed
  /\ Cardinality({i \in 1..Len(combinedEntries) :
                    /\ Has(combinedEntries[i], "mealCount")
                    /\ combinedEntries[i].mealCount > 0}) >= 14
  /\ Cardinality(MealDays) = 13
  /\ mealImpact.hasEnoughData = FALSE

\* the positions of the commas of a text
Commas(text) == {k \in 1..Len(text) : text[k] = ","}

\* the position of comma j of a text, 0 before the first and past the
\* end of the text behind the last
Cut(text, j) ==
  IF j = 0 THEN 0
  ELSE IF j > Cardinality(Commas(text)) THEN Len(text) + 1
  ELSE CHOOSE k \in Commas(text) :
         Cardinality({c \in Commas(text) : c < k}) = j - 1

\* segment j of a text: what stands between comma j - 1 and comma j
Segment(text, j) == SubSeq(text, Cut(text, j - 1) + 1, Cut(text, j) - 1)

Capitals ==
  <<"A", "B", "C", "D", "E", "F", "G", "H", "I", "J", "K", "L", "M", "N",
    "O", "P", "Q", "R", "S", "T", "U", "V", "W", "X", "Y", "Z">>

Smalls ==
  <<"a", "b", "c", "d", "e", "f", "g", "h", "i", "j", "k", "l", "m", "n",
    "o", "p", "q", "r", "s", "t", "u", "v", "w", "x", "y", "z">>

Small(ch) ==
  IF \E k \in 1..26 : Capitals[k] = ch
  THEN Smalls[CHOOSE k \in 1..26 : Capitals[k] = ch]
  ELSE ch

\* the positions of the characters of a text that are not blank
Inked(text) == {k \in 1..Len(text) : text[k] \notin WhiteSpace}

\* a text without the blanks around it and in small letters
Plain(text) ==
  IF Inked(text) = {} THEN << >>
  ELSE LET from == CHOOSE k \in Inked(text) : \A j \in Inked(text) : k <= j
           to == CHOOSE k \in Inked(text) : \A j \in Inked(text) : j <= k
       IN  [k \in 1..(to - from + 1) |-> Small(text[from + k - 1])]

\* the position of the qualifying record of a date, 0 when there is none
MealDayOf(date) ==
  IF \E i \in MealDays : combinedEntries[i].date = date
  THEN CHOOSE i \in MealDays : combinedEntries[i].date = date
  ELSE 0

\* the segments that contribute: segment j of the meals of food row r, for
\* the rows whose date has a qualifying record
Servings ==
  UNION {{<<r, j>> : j \in 1..SegmentCount(foodEntries.items[r].meals, ",")} :
           r \in {q \in 1..Len(foodEntries.items) :
                    MealDayOf(foodEntries.items[q].date) # 0}}

ServingName(rj) == Plain(Segment(foodEntries.items[rj[1]].meals, rj[2]))

ServingMood(rj) ==
  combinedEntries[MealDayOf(foodEntries.items[rj[1]].date)].moodValue

ServingsOf(meal) == {rj \in Servings : ServingName(rj) = meal}

ServedMoodTotal(meal) ==
  SumOver(ServingsOf(meal), [rj \in ServingsOf(meal) |-> ServingMood(rj)])

\* C17: when the meal floor is met, a food row contributes only if its
\* date has a qualifying combined record, and each comma-separated segment
\* of its meals, trimmed and in small letters, adds the mood score of the
\* date once to the meal of that name: every pattern has a name in that
\* form and its own name, its occurrences are the number of such segments
\* of all contributing rows, and its avgMood is the mean of the mood
\* scores added.
C17_MealAccumulation ==
  (Analyzed /\ mealImpact.hasEnoughData) =>
    \A k \in 1..Len(mealImpact.mealPatterns) :
      LET pattern == mealImpact.mealPatterns[k]
      IN  /\ pattern.meal = Plain(pattern.meal)
          /\ \A j \in 1..Len(mealImpact.mealPatterns) :
               mealImpact.mealPatterns[j].meal = pattern.meal => j = k
          /\ pattern.occurrences = Cardinality(ServingsOf(pattern.meal))
          /\ IsMeanOf(pattern.avgMood, ServedMoodTotal(pattern.meal),
                      pattern.occurrences)

\* a pattern counts segments written in three ways, one of them the second
\* segment of its row, and a food row of a day without a mood score
\* contributes nothing
C17_Witness ==
  /\ Analyzed
  /\ mealImpact.hasEnoughData
  /\ \E k \in 1..Len(mealImpact.mealPatterns) :
       LET meal == mealImpact.mealPatterns[k].meal
       IN  /\ Cardinality({Segment(foodEntries.items[rj[1]].meals, rj[2]) :
                             rj \in ServingsOf(meal)}) = 3
           /\ \E rj \in ServingsOf(meal) : rj[2] = 2
           /\ \E r \in 1..Len(foodEntries.items) :
                /\ MealDayOf(foodEntries.items[r].date) = 0
                /\ Plain(foodEntries.items[r].meals) = meal

\* the names of the meals that were served on qualifying days
ServedMeals == {ServingName(rj) : rj \in Servings}

ReturnedMeals ==
  {mealImpact.mealPatterns[k].meal : k \in 1..Len(mealImpact.mealPatterns)}

\* C18: every pattern returned by analyzeMealImpact has at least 3
\* occurrences and every meal with at least 3 occurrences is returned; a
\* meal with 1 or 2 occurrences is not, whatever its average mood.
C18_MealNoiseFilter ==
  (Analyzed /\ mealImpact.hasEnoughData) =>
    /\ \A k \in 1..Len(mealImpact.mealPatterns) :
         mealImpact.mealPatterns[k].occurrences >= 3
    /\ ReturnedMeals
         = {meal \in ServedMeals : Cardinality(ServingsOf(meal)) >= 3}

\* a meal served twice, on days of a mood above the average mood of every
\* meal returned, is not returned
C18_Witness ==
  /\ Analyzed
  /\ mealImpact.hasEnoughData
  /\ ReturnedMeals # {}
  /\ \E meal \in ServedMeals \ ReturnedMeals :
       /\ Cardinality(ServingsOf(meal)) = 2
       /\ \A other \in ReturnedMeals :
            ServedMoodTotal(meal) * Cardinality(ServingsOf(other))
              > ServedMoodTotal(other) * 2

\* the mean mood of meal a is not below that of meal b
MeanNotBelow(a, b) ==
  ServedMoodTotal(a) * Cardinality(ServingsOf(b))
    >= ServedMoodTotal(b) * Cardinality(ServingsOf(a))

\* C19: the patterns returned by analyzeMealImpact are in the order of
\* their average mood, none before one of a higher average, so that the
\* first is a meal of the highest average mood among those with at least
\* 3 occurrences; oats with the moods 5, 5, 4 stands before pizza with the
\* moods 2, 3, 2.
C19_MealRanking ==
  (Analyzed /\ mealImpact.hasEnoughData) =>
    \A j, k \in 1..Len(mealImpact.mealPatterns) :
      j < k => MeanNotBelow(mealImpact.mealPatterns[j].meal,
                            mealImpact.mealPatterns[k].meal)

\* oats with the moods 5, 5, 4 is the first pattern and pizza with the
\* moods 2, 3, 2 a later one, while the first row of food that contributed
\* was one of pizza
C19_Witness ==
  /\ Analyzed
  /\ mealImpact.hasEnoughData
  /\ Len(mealImpact.mealPatterns) >= 2
  /\ mealImpact.mealPatterns[1].meal = Oats
  /\ Cardinality(ServingsOf(Oats)) = 3
  /\ ServedMoodTotal(Oats) = 14
  /\ Pizza \in ReturnedMeals
  /\ Cardinality(ServingsOf(Pizza)) = 3
  /\ ServedMoodTotal(Pizza) = 7
  /\ <<1, 1>> \in ServingsOf(Pizza)

\* C20: no call of combineDailyEntries, calculateMoodSleepCorrelation,
\* calculateMoodWaterCorrelation, calculateGratitudeImpact or
\* analyzeMealImpact raises an error, whatever the rows: the analysis never
\* ends in the catch block, and too little data is reported by
\* hasEnoughData false alone.
C20_NoOperationThrows == pc \notin {"failed", "threw"}

\* the field is there and is the number 0
IsZeroCount(result, field) == Has(result, field) /\ result[field] = 0

\* C21: an analysis that returns hasEnoughData false returns 0 in every
\* numeric field the page reads: correlation and the optimal value of the
\* two correlations; impact, the two average moods and the two numbers of
\* days withGratitudeDays and withoutGratitudeDays of the gratitude impact.
C21_ZeroedNumerics ==
  Analyzed =>
    /\ ~sleepCorrelation.hasEnoughData =>
         /\ sleepCorrelation.correlation = Zero
         /\ IsZeroCount(sleepCorrelation, "optimalSleepHours")
    /\ ~waterCorrelation.hasEnoughData =>
         /\ waterCorrelation.correlation = Zero
         /\ IsZeroCount(waterCorrelation, "optimalWaterCups")
    /\ ~gratitudeImpact.hasEnoughData =>
         /\ gratitudeImpact.impact = Zero
         /\ gratitudeImpact.avgMoodWithGratitude = Zero
         /\ gratitudeImpact.avgMoodWithoutGratitude = Zero
         /\ IsZeroCount(gratitudeImpact, "withGratitudeDays")
         /\ IsZeroCount(gratitudeImpact, "withoutGratitudeDays")

(***************************************************************************)
(* The five functions called one at a time, in any order and any number    *)
(* of times, on the rows of a diary: combineDailyEntries first, then the   *)
(* four analyses on the records it returned.  A call receives its arrays   *)
(* by reference; what it leaves in them is what its statements do to them. *)
(***************************************************************************)
\* a filter that removes from its receiver what it does not return
filterReceiverSpliced(entries) == SelectSeq(entries, HasMood)

\* combinedEntries.filter(...) returns a new array: its receiver, the one
\* array an analysis is given, is after the call what it was before
filterReceiver(entries) == entries

\* the days of a family, its kinds of day in turn
TurnsOf(family) ==
  [d \in 1..MaxDays |-> family[(d % Len(family)) + 1]]

\* the diaries of MaxImpactDays days in which every kind of day has its
\* even share of the days, or as many days as it can have
EvenCountsOf(diary) ==
  {counts \in CountsOf(diary, Len(diary)) :
     /\ Total(counts, Len(diary)) = MaxImpactDays
     /\ \A k \in 1..Len(diary) :
          counts[k] >= Least(diary[k].most, MaxImpactDays \div Len(diary))}

InitPure ==
  /\ \/ \E f \in 1..Len(Families) :
          /\ moodEntries = Fetched(TurnsOf(Families[f]), {"mood"})
          /\ sleepEntries
               = Fetched(TurnsOf(Families[f]), {"hours_slept", "sleep_quality"})
          /\ waterEntries = Fetched(TurnsOf(Families[f]), {"cups"})
          /\ foodEntries = Fetched(TurnsOf(Families[f]), {"meals"})
          /\ gratitudeEntries
               = Fetched(TurnsOf(Families[f]), {"gratitude_items"})
     \/ \E d \in 1..Len(Diaries) :
          \E counts \in EvenCountsOf(Diaries[d]) :
            InitImpactOf(DaysOf(Diaries[d], counts, Len(Diaries[d])))
  /\ combinedEntries = << >>
  /\ sleepCorrelation = sleepCorrelationDefault
  /\ waterCorrelation = waterCorrelationDefault
  /\ gratitudeImpact = gratitudeImpactDefault
  /\ mealImpact = mealImpactDefault
  /\ pc = "fetched"
  /\ OffPageIdle
  /\ RunAwaited

\* const sleepResults = calculateMoodSleepCorrelation(combinedEntries)
AnalyzeSleep ==
  /\ pc = "combined"
  /\ sleepCorrelation' = calculateMoodSleepCorrelation(combinedEntries)
  /\ combinedEntries' = filterReceiver(combinedEntries)
  /\ UNCHANGED <<moodEntries, sleepEntries, waterEntries, foodEntries,
                 gratitudeEntries, waterCorrelation, gratitudeImpact,
                 mealImpact, pc>>
  /\ UNCHANGED offPage
  /\ UNCHANGED loadVars

\* const waterResults = calculateMoodWaterCorrelation(combinedEntries)
AnalyzeWater ==
  /\ pc = "combined"
  /\ waterCorrelation' = calculateMoodWaterCorrelation(combinedEntries)
  /\ combinedEntries' = filterReceiver(combinedEntries)
  /\ UNCHANGED <<moodEntries, sleepEntries, waterEntries, foodEntries,
                 gratitudeEntries, sleepCorrelation, gratitudeImpact,
                 mealImpact, pc>>
  /\ UNCHANGED offPage
  /\ UNCHANGED loadVars

\* const gratitudeResults = calculateGratitudeImpact(combinedEntries)
AnalyzeGratitude ==
  /\ pc = "combined"
  /\ gratitudeImpact' = calculateGratitudeImpact(combinedEntries)
  /\ combinedEntries' = filterReceiver(combinedEntries)
  /\ UNCHANGED <<moodEntries, sleepEntries, waterEntries, foodEntries,
                 gratitudeEntries, sleepCorrelation, waterCorrelation,
                 mealImpact, pc>>
  /\ UNCHANGED offPage
  /\ UNCHANGED loadVars

\* const mealResults = analyzeMealImpact(combinedEntries, foodEntries)
AnalyzeMeals ==
  /\ pc = "combined"
  /\ IF analyzeMealImpactRaises(combinedEntries, foodEntries)
     THEN pc' = "failed" /\ UNCHANGED mealImpact
     ELSE /\ mealImpact' = analyzeMealImpact(combinedEntries, foodEntries)
          /\ UNCHANGED pc
  /\ combinedEntries' = filterReceiver(combinedEntries)
  /\ UNCHANGED <<moodEntries, sleepEntries, waterEntries, foodEntries,
                 gratitudeEntries, sleepCorrelation, waterCorrelation,
                 gratitudeImpact>>
  /\ UNCHANGED offPage
  /\ UNCHANGED loadVars

NextPure ==
  \/ CombineEntries
  \/ AnalyzeSleep
  \/ AnalyzeWater
  \/ AnalyzeGratitude
  \/ AnalyzeMeals

SpecPure == InitPure /\ [][NextPure]_vars

\* what combineDailyEntries returns for the five lists
Recombined ==
  combineDailyEntries(moodEntries, sleepEntries, waterEntries, foodEntries,
                      gratitudeEntries)

ScenarioDates == 1..10

ScenarioHours == <<4, 5, 6, 7, 8, 9>>

\* the mood of a score
MoodOfScore(v) == CHOOSE mood \in Moods : moodValues[mood] = v

\* the mood scores of n days, none lower than lo, in rising order
RECURSIVE Rising(_, _)
Rising(n, lo) ==
  IF n = 0 THEN {<< >>}
  ELSE UNION {{<<v>> \o rest : rest \in Rising(n - 1, v)} : v \in lo..5}

\* the same, or with an awful day first if one may still come
HourScores(n, lo, awfulDays) ==
  Rising(n, lo)
    \cup (IF awfulDays = 0 THEN {}
          ELSE {<<1>> \o rest : rest \in Rising(n - 1, lo)})

RECURSIVE ScoreTotal(_)
ScoreTotal(scores) ==
  IF scores = << >> THEN 0 ELSE Head(scores) + ScoreTotal(Tail(scores))

\* the days of an hour
HourDays(a, scores) ==
  [d \in 1..Len(scores) |->
     [mood |-> MoodOfScore(scores[d]),
      hours_slept |-> 10 * ScenarioHours[a],
      sleep_quality |-> 6]]

\* the days of the hours from ScenarioHours[a] on, left of them in all,
\* the hour before having the sum lowSum of mood scores on lowCount days
\* and no day before a mood score above lo
RECURSIVE ScenarioDays(_, _, _, _, _, _)
ScenarioDays(a, left, lowSum, lowCount, lo, awfulDays) ==
  IF a > Len(ScenarioHours) THEN {<< >>}
  ELSE UNION
         {UNION
            {{HourDays(a, scores) \o rest :
                rest \in ScenarioDays(a + 1, left - n, ScoreTotal(scores), n,
                                      IF scores[n] > lo THEN scores[n] ELSE lo,
                                      IF scores[1] < lo THEN 0 ELSE awfulDays)} :
               scores \in {t \in HourScores(n, lo, awfulDays) :
                             lowSum * n < ScoreTotal(t) * lowCount}} :
            n \in IF a = Len(ScenarioHours) THEN {left}
                  ELSE 1..(left - (Len(ScenarioHours) - a))}

ScenarioDiaries ==
  ScenarioDays(1, Cardinality(ScenarioDates), 0, 1, 1, 1)

InitScenarioOf(days) ==
  /\ moodEntries = Fetched(days, {"mood"})
  /\ sleepEntries = Fetched(days, {"hours_slept", "sleep_quality"})
  /\ waterEntries = Fetched(days, {"cups"})
  /\ foodEntries = Fetched(days, {"meals"})
  /\ gratitudeEntries = Fetched(days, {"gratitude_items"})

InitScenario ==
  /\ \E days \in ScenarioDiaries : InitScenarioOf(days)
  /\ combinedEntries = << >>
  /\ sleepCorrelation = sleepCorrelationDefault
  /\ waterCorrelation = waterCorrelationDefault
  /\ gratitudeImpact = gratitudeImpactDefault
  /\ mealImpact = mealImpactDefault
  /\ pc = "fetched"
  /\ OffPageIdle
  /\ RunAwaited

NextScenario == LoadAndAnalyzeData

SpecScenario == InitScenario /\ [][NextScenario]_vars

\* the sum of the mood scores of the records of an hour, and their number
RecordScoreSum(h, n) ==
  Total([i \in 1..n |-> IF combinedEntries[i].sleepHours = 10 * h
                        THEN combinedEntries[i].moodValue ELSE 0], n)

RecordCount(h) ==
  Cardinality({i \in 1..Len(combinedEntries) :
                 combinedEntries[i].sleepHours = 10 * h})

\* 10 records that each have a mood score and sleep hours, the hours being
\* the whole hours 4 to 9, every one of them on a record at least, and the
\* mean mood score of the records of an hour higher, the more hours
ScenarioHolds ==
  /\ Len(combinedEntries) = Cardinality(ScenarioDates)
  /\ \A i \in 1..Len(combinedEntries) :
       /\ Has(combinedEntries[i], "moodValue")
       /\ Has(combinedEntries[i], "sleepHours")
       /\ \E a \in 1..Len(ScenarioHours) :
            combinedEntries[i].sleepHours = 10 * ScenarioHours[a]
  /\ \A a \in 1..Len(ScenarioHours) : RecordCount(ScenarioHours[a]) >= 1
  /\ \A a, b \in 1..Len(ScenarioHours) :
       a + 1 = b =>
         RecordScoreSum(ScenarioHours[a], Len(combinedEntries))
             * RecordCount(ScenarioHours[b])
           < RecordScoreSum(ScenarioHours[b], Len(combinedEntries))
               * RecordCount(ScenarioHours[a])

\* no record of more hours has a lower mood score than one of fewer
NeverFalls ==
  \A i, j \in 1..Len(combinedEntries) :
    combinedEntries[i].sleepHours < combinedEntries[j].sleepHours
      => combinedEntries[i].moodValue <= combinedEntries[j].moodValue

ScenarioOutcome ==
  /\ sleepCorrelation.hasEnoughData
  /\ FCmp(sleepCorrelation.correlation, FromTenths(8)) = 1
  /\ sleepCorrelation.optimalSleepHours = 9

MaxLimit == 2

MaxRequests == 5

MaxTicks == 4

TickMs == 1000

Tokens == {"ip1", "ip2", "ip3"}

\* the options of the limiters that are created
LimiterOptions ==
  {[interval |-> 2500, limit |-> limit, uniqueTokenPerInterval |-> 2] :
     limit \in 1..MaxLimit}

\* max: options.uniqueTokenPerInterval || 500
maxOf(opts) ==
  IF opts.uniqueTokenPerInterval = 0 THEN 500 ELSE opts.uniqueTokenPerInterval

\* ttl: options.interval || 60000
ttlOf(opts) == IF opts.interval = 0 THEN 60000 ELSE opts.interval

\* the place of a key in the cache, 0 if it has none
PlaceOf(cache, key) ==
  IF \E k \in 1..Len(cache) : cache[k].key = key
  THEN CHOOSE k \in 1..Len(cache) : cache[k].key = key
  ELSE 0

RemoveAt(cache, k) ==
  [j \in 1..(Len(cache) - 1) |-> IF j < k THEN cache[j] ELSE cache[j + 1]]

\* an entry is stale once it is older than the ttl
isStale(entry, ttl, t) == t - entry.start > ttl

\* tokenCache.get(key): nothing for a key that is absent or stale, and a
\* stale entry is deleted; the value of a fresh entry, which becomes the
\* most recently used
cacheGet(cache, key, ttl, t) ==
  LET k == PlaceOf(cache, key)
  IN  IF k = 0 THEN [cache |-> cache, found |-> FALSE]
      ELSE IF isStale(cache[k], ttl, t)
      THEN [cache |-> RemoveAt(cache, k), found |-> FALSE]
      ELSE [cache |-> Append(RemoveAt(cache, k), cache[k]),
            found |-> TRUE, value |-> cache[k].value]

\* tokenCache.set(key, value): the entry is set at the time of the call and
\* is the most recently used; a new key in a full cache takes the place of
\* the least recently used
cacheSet(cache, key, value, max, t) ==
  LET entry == [key |-> key, value |-> value, start |-> t]
      k == PlaceOf(cache, key)
  IN  IF k # 0 THEN Append(RemoveAt(cache, k), entry)
      ELSE IF Len(cache) >= max THEN Append(Tail(cache), entry)
      ELSE Append(cache, entry)

\* token || 'anonymous', no token and the empty token being ""
tokenKeyOf(token) == IF token = "" THEN "anonymous" ELSE token

\* limit || options.limit, no limit and the limit 0 being 0
currentLimitOf(limit, opts) == IF limit = 0 THEN opts.limit ELSE limit

\* tokenCache.get(uniqueToken) || [0], its number
tokenCountOf(got) == IF got.found THEN got.value ELSE 0

\* if (tokenCount[0] === 0) tokenCache.set(...); tokenCount[0] += 1: the
\* array in the cache is the array that is incremented
cacheAfterCheck(got, key, opts, t) ==
  IF tokenCountOf(got) = 0
  THEN cacheSet(got.cache, key, 1, maxOf(opts), t)
  ELSE [got.cache EXCEPT ![Len(got.cache)].value = @ + 1]

Max0(n) == IF n < 0 THEN 0 ELSE n

\* the headers check sets and the promise it returns
responseOf(count, currentLimit, opts) ==
  IF count > currentLimit
  THEN [settled |-> "rejected", status |-> 429,
        message |-> "Too Many Requests",
        headers |-> [XRateLimitLimit |-> currentLimit,
                     XRateLimitRemaining |-> Max0(currentLimit - count),
                     RetryAfter |-> opts.interval \div 1000]]
  ELSE [settled |-> "resolved",
        headers |-> [XRateLimitLimit |-> currentLimit,
                     XRateLimitRemaining |-> Max0(currentLimit - count)]]

\* the statistics page is not open
PageIdle ==
  /\ moodEntries = ArrayOf(<< >>)
  /\ sleepEntries = ArrayOf(<< >>)
  /\ waterEntries = ArrayOf(<< >>)
  /\ foodEntries = ArrayOf(<< >>)
  /\ gratitudeEntries = ArrayOf(<< >>)
  /\ combinedEntries = << >>
  /\ sleepCorrelation = sleepCorrelationDefault
  /\ waterCorrelation = waterCorrelationDefault
  /\ gratitudeImpact = gratitudeImpactDefault
  /\ mealImpact = mealImpactDefault
  /\ pc = "idle"
  /\ RunAwaited

\* const limiter = rateLimit(options)
InitLimit ==
  /\ PageIdle
  /\ SignupIdle
  /\ RouteIdle
  /\ options \in LimiterOptions
  /\ tokenCache = << >>
  /\ now = TickMs
  /\ requests = << >>

\* limiter.check(res, limit, token)
check(limit, token, got) ==
  /\ tokenCache' = cacheAfterCheck(got, tokenKeyOf(token), options, now)
  /\ requests' =
       Append(requests,
              [token |-> tokenKeyOf(token), at |-> now]
                @@ responseOf(tokenCountOf(got) + 1,
                              currentLimitOf(limit, options), options))
  /\ UNCHANGED <<options, now>>

Check ==
  /\ Len(requests) < MaxRequests
  /\ \E token \in Tokens :
       \E limit \in {0, options.limit} :
         check(limit, token,
               cacheGet(tokenCache, tokenKeyOf(token), ttlOf(options), now))
  /\ UNCHANGED <<pageVars, signupVars, routeVars>>

\* time passes
Tick ==
  /\ now < TickMs * MaxTicks
  /\ now' = now + TickMs
  /\ UNCHANGED <<options, tokenCache, requests, pageVars, signupVars,
                 routeVars>>

NextLimit == Check \/ Tick

SpecLimit == InitLimit /\ [][NextLimit]_vars

(***************************************************************************)
(* Properties of the rate limiter, stated on the requests and the answers  *)
(* to them.  The interval of a token opens with a request of the token     *)
(* that no open interval of the token holds, and holds the requests of the *)
(* token of the next options.interval milliseconds.                        *)
(***************************************************************************)
RECURSIVE Opens(_)
Opens(i) ==
  ~ \E j \in 1..(i - 1) :
      /\ requests[j].token = requests[i].token
      /\ requests[i].at - requests[j].at <= options.interval
      /\ Opens(j)

\* the request that opened the interval of request i
OpenerOf(i) ==
  CHOOSE j \in 1..i :
    /\ requests[j].token = requests[i].token
    /\ requests[i].at - requests[j].at <= options.interval
    /\ Opens(j)

\* the requests of the interval of request i, up to request i
CountAt(i) ==
  Cardinality({k \in OpenerOf(i)..i : requests[k].token = requests[i].token})

Admitted(i) == requests[i].settled = "resolved"

\* C24: for each token at most options.limit requests are admitted within
\* one interval; every further request of the interval is rejected with
\* status 429 and Retry-After set; and X-RateLimit-Remaining is always
\* max(0, limit - count), count being the requests of the token in the
\* interval so far.
C24_AdmissionBound ==
  \A i \in 1..Len(requests) :
    /\ Cardinality({k \in OpenerOf(i)..i :
                      /\ requests[k].token = requests[i].token
                      /\ Admitted(k)}) <= options.limit
    /\ CountAt(i) > options.limit
         => /\ ~Admitted(i)
            /\ requests[i].status = 429
            /\ Has(requests[i].headers, "RetryAfter")
    /\ requests[i].headers.XRateLimitRemaining
         = Max0(options.limit - CountAt(i))

\* the number the cache holds for a token, 0 without a fresh entry
HeldFor(cache, token, t) ==
  IF /\ PlaceOf(cache, token) # 0
     /\ ~isStale(cache[PlaceOf(cache, token)], ttlOf(options), t)
  THEN cache[PlaceOf(cache, token)].value
  ELSE 0

\* C25: a request with one token leaves the count of every other token as
\* it was, whatever the number of requests with other tokens.
C25_TokenIsolation ==
  [][requests' # requests =>
       \A token \in Tokens :
         token # requests'[Len(requests')].token
           => HeldFor(tokenCache', token, now') = HeldFor(tokenCache, token, now)]_vars

(***************************************************************************)
(* The signup handler of pages/api/auth/signup.ts.  A request has a        *)
(* method, the address of its client and a body, an object of which name,  *)
(* email and password are texts when they are there.  The auth service     *)
(* holds the users that were created; the environment of the server has    *)
(* the credentials of the service.                                         *)
(***************************************************************************)
Digits == {"0", "1", "2", "3", "4", "5", "6", "7", "8", "9"}

Letters ==
  {Capitals[k] : k \in 1..Len(Capitals)} \cup {Smalls[k] : k \in 1..Len(Smalls)}

Specials == {"@", "$", "!", "%", "*", "#", "?", "&"}

\* the bodies that are sent: each field is left out or is one of its texts
FieldTexts ==
  [name |-> {<< >>, <<"A">>, <<" ", "A", "l">>},
   email |-> {<<"a", "@", "M", "e", ".", "c", "o", "m">>,
              <<"a", "@", "x", ".", "i", "o">>},
   password |-> {<<"a", "b", "c", "d", "e", "f", "1", "!">>,
                 <<"a", "b", "c">>}]

Bodies ==
  UNION {{body \in [given -> UNION {FieldTexts[f] : f \in given}] :
            \A f \in given : body[f] \in FieldTexts[f]} :
           given \in SUBSET {"name", "email", "password"}}

Methods == {"POST", "GET"}

Addresses == {"ip1"}

\* the signupLimiter
signupOptions ==
  [interval |-> 60 * 1000, uniqueTokenPerInterval |-> 500, limit |-> 5]

\* the replacement of a character by sanitizeInput
EntityOf(ch) ==
  CASE ch = "<" -> <<"&", "l", "t", ";">>
    [] ch = ">" -> <<"&", "g", "t", ";">>
    [] ch = "&" -> <<"&", "a", "m", "p", ";">>
    [] ch = "\"" -> <<"&", "q", "u", "o", "t", ";">>
    [] ch = "'" -> <<"&", "#", "x", "2", "7", ";">>
    [] OTHER -> <<ch>>

RECURSIVE replaceEntities(_)
replaceEntities(text) ==
  IF text = << >> THEN << >>
  ELSE EntityOf(Head(text)) \o replaceEntities(Tail(text))

\* sanitizeInput(input), for an input that is a string
sanitizeInput(input) == replaceEntities(trim(input))

\* sanitizeInput of a property that is not there: undefined.trim raises
sanitizeInputRaises(body, field) == ~Has(body, field)

\* !x for a property that is a string or is not there
Falsy(body, field) == ~Has(body, field) \/ body[field] = << >>

isValidName(name) ==
  /\ ~(Len(name) < 2 \/ Len(name) > 20)
  /\ \A k \in 1..Len(name) : name[k] \in Letters \cup WhiteSpace \cup {"-"}

\* /^[^\s@]+@[^\s@]+\.[^\s@]+$/
emailRegexTest(email) ==
  \E at \in 2..(Len(email) - 3) :
    /\ email[at] = "@"
    /\ \A k \in 1..Len(email) :
         k # at => email[k] \notin WhiteSpace \cup {"@"}
    /\ \E dot \in (at + 2)..(Len(email) - 1) : email[dot] = "."

trustedEmailProviders ==
  {<<"@", "g", "m", "a", "i", "l", ".", "c", "o", "m">>,
   <<"@", "y", "a", "h", "o", "o", ".", "c", "o", "m">>,
   <<"@", "o", "u", "t", "l", "o", "o", "k", ".", "c", "o", "m">>,
   <<"@", "h", "o", "t", "m", "a", "i", "l", ".", "c", "o", "m">>,
   <<"@", "i", "c", "l", "o", "u", "d", ".", "c", "o", "m">>,
   <<"@", "p", "r", "o", "t", "o", "n", "m", "a", "i", "l", ".", "c", "o", "m">>,
   <<"@", "a", "o", "l", ".", "c", "o", "m">>,
   <<"@", "m", "e", ".", "c", "o", "m">>,
   <<"@", "l", "i", "v", "e", ".", "c", "o", "m">>,
   <<"@", "m", "s", "n", ".", "c", "o", "m">>}

isValidEmail(email) ==
  /\ emailRegexTest(email)
  /\ <<"@">> \o toLowerCase(split(email, "@")[2]) \in trustedEmailProviders

isStrongPassword(password) ==
  /\ Len(password) >= 8
  /\ \E k \in 1..Len(password) : password[k] \in Letters
  /\ \E k \in 1..Len(password) : password[k] \in Digits
  /\ \E k \in 1..Len(password) : password[k] \in Specials
  /\ \A k \in 1..Len(password) :
       password[k] \in Letters \cup Digits \cup Specials

\* what supabaseAdmin.auth.admin.createUser may answer
CreateUserAnswers(email) ==
  IF \E user \in users : user.email = email
  THEN {"already registered"}
  ELSE {"created", "error", "no user"}

\* the response to a request that passed the rate limit and the log line,
\* and the users after it
respondToBody(body, answer) ==
  IF Falsy(body, "name") \/ Falsy(body, "email") \/ Falsy(body, "password")
  THEN /\ res' = [status |-> 400, error |-> "Missing required fields"]
       /\ UNCHANGED users
  ELSE IF ~isValidName(sanitizeInput(body.name))
  THEN /\ res' = [status |-> 400, error |-> "Invalid name format"]
       /\ UNCHANGED users
  ELSE IF ~isValidEmail(body.email)
  THEN /\ res' = [status |-> 400, error |-> "Invalid email format"]
       /\ UNCHANGED users
  ELSE IF ~isStrongPassword(body.password)
  THEN /\ res' = [status |-> 400, error |-> "Password too weak"]
       /\ UNCHANGED users
  ELSE IF answer = "already registered"
  THEN /\ res' = [status |-> 409, error |-> "Email already registered"]
       /\ UNCHANGED users
  ELSE IF answer = "error"
  THEN /\ res' = [status |-> 400, error |-> "authError.message"]
       /\ UNCHANGED users
  ELSE IF answer = "no user"
  THEN /\ res' = [status |-> 500, error |-> "Failed to create user"]
       /\ UNCHANGED users
  ELSE /\ res' = [status |-> 200, message |-> "User created successfully"]
       /\ users' = users \cup {[email |-> body.email,
                                name |-> sanitizeInput(body.name)]}

\* the try block and its catch, after the rate limit was asked
respondAfterCheck(body, answer) ==
  IF requests'[Len(requests')].settled = "rejected"
  THEN /\ res' = [status |-> 429, error |-> "Too many signup attempts"]
       /\ UNCHANGED users
  ELSE IF sanitizeInputRaises(body, "email")
  THEN /\ res' = [status |-> 500,
                  error |-> "An unexpected error occurred during signup"]
       /\ UNCHANGED users
  ELSE respondToBody(body, answer)

handler(method, ip, body) ==
  /\ req' = [method |-> method, body |-> body, ip |-> ip]
  /\ IF method # "POST"
     THEN /\ res' = [status |-> 405, error |-> "Method not allowed"]
          /\ UNCHANGED <<users, limiterVars>>
     ELSE /\ Len(requests) <= options.limit
          /\ check(5, ip, cacheGet(tokenCache, tokenKeyOf(ip),
                                   ttlOf(options), now))
          /\ \E answer \in CreateUserAnswers(IF Has(body, "email")
                                             THEN body.email ELSE << >>) :
               respondAfterCheck(body, answer)
  /\ UNCHANGED <<pageVars, routeVars>>

Signup ==
  \E method \in Methods :
    \E ip \in Addresses :
      \E body \in Bodies : handler(method, ip, body)

InitSignup ==
  /\ PageIdle
  /\ SignupIdle
  /\ RouteIdle
  /\ options = signupOptions
  /\ tokenCache = << >>
  /\ now = TickMs
  /\ requests = << >>

NextSignup == Signup

SpecSignup == InitSignup /\ [][NextSignup]_vars

\* the step is a POST that passed the rate limit
PassedTheLimit ==
  /\ req'.method = "POST"
  /\ requests' # requests
  /\ requests'[Len(requests')].settled = "resolved"

\* C26: a POST that passes the rate limit and whose body lacks name, email
\* or password is answered with status 400 and the error "Missing required
\* fields", and no user is created.
C26_MissingFields ==
  [][(/\ PassedTheLimit
      /\ \E f \in {"name", "email", "password"} : ~Has(req'.body, f))
       => /\ res' = [status |-> 400, error |-> "Missing required fields"]
          /\ users' = users]_vars

(***************************************************************************)
(* The statistics page while the user changes the time range.  The effect  *)
(* of the page starts a run of loadAndAnalyzeData for every new time       *)
(* range; a run sets the loading state, sends its five fetches and awaits  *)
(* them, and when they have come it analyses the rows and stores the       *)
(* results.  Nothing ends a run, and the fetches of two runs may come in   *)
(* either order.  A date YYYY-MM-DD is kept as the number                  *)
(* (12 Y + M - 1) 31 + D, which orders the dates as their strings do and   *)
(* is 31 less a month earlier.                                             *)
(***************************************************************************)
MaxInFlight == 2

Ranges == {"1m", "3m", "6m", "1y"}

DateOf(y, m, d) == (12 * y + m - 1) * 31 + d

today == DateOf(2025, 6, 15)

\* the months between startDate and today
monthsOf(range) ==
  CASE range = "1m" -> 1
    [] range = "3m" -> 3
    [] range = "6m" -> 6
    [] OTHER -> 12

\* startDate: setMonth(today.getMonth() - months), on the day of today
startDateOf(range) == today - 31 * monthsOf(range)

\* the rows the user has saved, the latest first
Journal ==
  << [date |-> DateOf(2025, 6, 15), mood |-> "good", hours_slept |-> 70,
      sleep_quality |-> 6, cups |-> 6],
     [date |-> DateOf(2025, 6, 14), mood |-> "great", hours_slept |-> 80,
      sleep_quality |-> 6, cups |-> 8],
     [date |-> DateOf(2025, 6, 13), mood |-> "neutral", hours_slept |-> 60,
      sleep_quality |-> 6, cups |-> 4],
     [date |-> DateOf(2025, 6, 12), mood |-> "good", hours_slept |-> 70,
      sleep_quality |-> 6, cups |-> 6],
     [date |-> DateOf(2025, 6, 11), mood |-> "great", hours_slept |-> 80,
      sleep_quality |-> 6, cups |-> 8],
     [date |-> DateOf(2025, 4, 10), mood |-> "bad", hours_slept |-> 50,
      sleep_quality |-> 6, cups |-> 2],
     [date |-> DateOf(2025, 1, 20), mood |-> "awful", hours_slept |-> 40,
      sleep_quality |-> 6, cups |-> 1],
     [date |-> DateOf(2024, 8, 1), mood |-> "great", hours_slept |-> 90,
      sleep_quality |-> 6, cups |-> 9] >>

\* the rows of a table from startDate to endDate, as a fetch returns them
FetchedBetween(fields, startDate, endDate) ==
  LET Test(row) ==
        /\ fields \subseteq DOMAIN row
        /\ row.date >= startDate
        /\ row.date <= endDate
      kept == SelectSeq(Journal, Test)
  IN  ArrayOf([i \in 1..Len(kept) |->
                 [f \in fields \cup {"date"} |-> kept[i][f]]])

\* the records a run for a time range combines
CombinedFor(range) ==
  combineDailyEntries(
    OrEmpty(FetchedBetween({"mood"}, startDateOf(range), today)),
    OrEmpty(FetchedBetween({"hours_slept", "sleep_quality"},
                           startDateOf(range), today)),
    OrEmpty(FetchedBetween({"cups"}, startDateOf(range), today)),
    OrEmpty(FetchedBetween({"meals"}, startDateOf(range), today)),
    OrEmpty(FetchedBetween({"gratitude_items"}, startDateOf(range), today)))

\* the page is mounted with its session: the effect has started the first
\* run, for the default time range
InitReload ==
  /\ moodEntries = ArrayOf(<< >>)
  /\ sleepEntries = ArrayOf(<< >>)
  /\ waterEntries = ArrayOf(<< >>)
  /\ foodEntries = ArrayOf(<< >>)
  /\ gratitudeEntries = ArrayOf(<< >>)
  /\ combinedEntries = << >>
  /\ sleepCorrelation = sleepCorrelationDefault
  /\ waterCorrelation = waterCorrelationDefault
  /\ gratitudeImpact = gratitudeImpactDefault
  /\ mealImpact = mealImpactDefault
  /\ pc = "loading"
  /\ timeRange = "3m"
  /\ isLoading = TRUE
  /\ error = [isNull |-> TRUE]
  /\ runs = <<"3m">>
  /\ OffPageIdle

\* onClick: setTimeRange(range); the effect then starts a run, which sets
\* the loading state and sends its fetches
SelectRange ==
  /\ Len(runs) < MaxInFlight
  /\ \E range \in Ranges \ {timeRange} :
       /\ timeRange' = range
       /\ runs' = Append(runs, range)
  /\ isLoading' = TRUE
  /\ error' = [isNull |-> TRUE]
  /\ UNCHANGED <<moodEntries, sleepEntries, waterEntries, foodEntries,
                 gratitudeEntries, combinedEntries, sleepCorrelation,
                 waterCorrelation, gratitudeImpact, mealImpact, pc>>
  /\ UNCHANGED offPage

\* the fetches of a run have come: the rest of loadAndAnalyzeData
FinishRunFor(range) ==
  /\ moodEntries' = FetchedBetween({"mood"}, startDateOf(range), today)
  /\ sleepEntries' = FetchedBetween({"hours_slept", "sleep_quality"},
                                    startDateOf(range), today)
  /\ waterEntries' = FetchedBetween({"cups"}, startDateOf(range), today)
  /\ foodEntries' = FetchedBetween({"meals"}, startDateOf(range), today)
  /\ gratitudeEntries' = FetchedBetween({"gratitude_items"},
                                        startDateOf(range), today)
  /\ combinedEntries' = CombinedFor(range)
  /\ StoreResultsOf(combinedEntries', foodEntries')

FinishRun ==
  /\ \E k \in 1..Len(runs) :
       /\ FinishRunFor(runs[k])
       /\ runs' = [j \in 1..(Len(runs) - 1) |->
                     IF j < k THEN runs[j] ELSE runs[j + 1]]
  /\ UNCHANGED timeRange
  /\ UNCHANGED offPage

NextReload == SelectRange \/ FinishRun

SpecReload == InitReload /\ [][NextReload]_vars

\* the four results shown are those of the analysis for a time range
ShownFor(range) ==
  /\ sleepCorrelation = calculateMoodSleepCorrelation(CombinedFor(range))
  /\ waterCorrelation = calculateMoodWaterCorrelation(CombinedFor(range))
  /\ gratitudeImpact = calculateGratitudeImpact(CombinedFor(range))
  /\ mealImpact = analyzeMealImpact(CombinedFor(range),
                                    FetchedBetween({"meals"},
                                                   startDateOf(range), today))

\* C27: when the time range was changed while an earlier run awaited its
\* fetches, then once all runs have finished the four results shown are
\* those computed for the time range selected last, and isLoading is false
\* only when no run is in flight.
C27_ReloadRace ==
  /\ runs = << >> => ShownFor(timeRange)
  /\ ~isLoading => runs = << >>

(***************************************************************************)
(* ProtectedRoute, in its two versions: "timed" has the state localLoading *)
(* and a timer of 3 seconds that ends it, "plain" has neither.  The auth   *)
(* context gives session and isLoading; a change of either renders the     *)
(* component again and runs its effect.  A path is a text.                 *)
(***************************************************************************)
MaxPushes == 2

Versions == {"timed", "plain"}

Paths ==
  {<<"/", "p">>, <<"/", "p", "?", "t", "=", "1">>,
   <<"/", "a", "u", "t", "h", "/", "x">>}

\* currentPath.includes(part)
includes(text, part) ==
  \E k \in 0..(Len(text) - Len(part)) :
    SubSeq(text, k + 1, k + Len(part)) = part

\* the escape of a character that encodeURIComponent does not leave alone
EscapeOf(ch) ==
  CASE ch = "/" -> <<"%", "2", "F">>
    [] ch = "?" -> <<"%", "3", "F">>
    [] ch = "=" -> <<"%", "3", "D">>
    [] ch = "%" -> <<"%", "2", "5">>
    [] ch = " " -> <<"%", "2", "0">>
    [] ch = "&" -> <<"%", "2", "6">>
    [] OTHER -> <<ch>>

RECURSIVE encodeURIComponent(_)
encodeURIComponent(text) ==
  IF text = << >> THEN << >>
  ELSE EscapeOf(Head(text)) \o encodeURIComponent(Tail(text))

\* the returnUrl of the redirect
returnUrlOf(currentPath) ==
  IF ~includes(currentPath, <<"/", "a", "u", "t", "h", "/">>)
  THEN encodeURIComponent(currentPath)
  ELSE encodeURIComponent(<<"/", "p", "r", "o", "f", "i", "l", "e">>)

\* router.push({pathname: "/auth/login", query: {returnUrl}})
pushLogin(r) ==
  [r EXCEPT !.pushed = Append(@, [pathname |-> "/auth/login",
                                  query |-> [returnUrl |->
                                               returnUrlOf(r.asPath)]])]

\* what the component returns
renderOf(r) ==
  IF r.version = "timed"
  THEN IF r.isLoading \/ (r.localLoading /\ ~r.session) THEN "spinner"
       ELSE IF ~r.session THEN "spinner"
       ELSE "children"
  ELSE IF r.isLoading THEN "spinner"
       ELSE IF ~r.session THEN "spinner"
       ELSE "children"

\* the component is rendered with the state it has
rendered(r) ==
  [r EXCEPT !.rendered = IF r.mounted THEN renderOf(r) ELSE "nothing"]

\* the effect on [session, isLoading, router]
authEffect(r) ==
  IF ~r.mounted \/ r.isLoading THEN r
  ELSE IF ~r.session THEN pushLogin(r)
  ELSE IF r.version = "timed" THEN [r EXCEPT !.localLoading = FALSE]
  ELSE r

\* a page inside ProtectedRoute is opened
Mount ==
  /\ ~route.mounted
  /\ Len(route.pushed) < MaxPushes
  /\ \E version \in Versions :
       \E path \in Paths :
         route' = rendered(authEffect(rendered(
                    [route EXCEPT !.version = version, !.mounted = TRUE,
                                  !.asPath = path,
                                  !.localLoading = (version = "timed"),
                                  !.timer = (version = "timed")])))
  /\ UNCHANGED <<pageVars, limiterVars, signupVars>>

\* the auth context has looked for the session
AuthLoaded ==
  /\ route.isLoading
  /\ \E session \in BOOLEAN :
       route' = rendered(authEffect(rendered(
                  [route EXCEPT !.isLoading = FALSE, !.session = session])))
  /\ UNCHANGED <<pageVars, limiterVars, signupVars>>

\* the user signs in or out, or the session ends
SessionChange ==
  /\ ~route.isLoading
  /\ Len(route.pushed) < MaxPushes
  /\ route' = rendered(authEffect(rendered(
                [route EXCEPT !.session = ~route.session])))
  /\ UNCHANGED <<pageVars, limiterVars, signupVars>>

\* the timer of 3 seconds: setLocalLoading(false)
Timeout ==
  /\ route.mounted
  /\ route.timer
  /\ route' = rendered([route EXCEPT !.timer = FALSE, !.localLoading = FALSE])
  /\ UNCHANGED <<pageVars, limiterVars, signupVars>>

\* the router has followed a push: the login page is shown, and the
\* cleanup of the component clears the timer
RouteChange ==
  /\ route.mounted
  /\ route.pushed # << >>
  /\ route' = rendered([route EXCEPT !.mounted = FALSE, !.timer = FALSE,
                                     !.asPath = <<"/", "a", "u", "t", "h", "/",
                                                  "l", "o", "g", "i", "n">>])
  /\ UNCHANGED <<pageVars, limiterVars, signupVars>>

InitRoute ==
  /\ PageIdle
  /\ LimiterIdle
  /\ SignupIdle
  /\ RouteIdle

NextRoute == Mount \/ AuthLoaded \/ SessionChange \/ Timeout \/ RouteChange

SpecRoute == InitRoute /\ [][NextRoute]_vars

\* the step ran the effect with auth loaded and no session
RedirectDue ==
  /\ route'.mounted
  /\ ~route'.isLoading
  /\ ~route'.session
  /\ \/ ~route.mounted
     \/ route.isLoading
     \/ route.session

\* C28: ProtectedRoute never renders its children while the session is
\* null or auth is loading; and whenever auth loading has finished with no
\* session it calls router.push for /auth/login with a returnUrl that is
\* the current path, or /profile if the path contains /auth/.
C28_ProtectedRoute ==
  [][/\ route'.rendered = "children"
          => route'.session /\ ~route'.isLoading
     /\ RedirectDue
          => /\ Len(route'.pushed) = Len(route.pushed) + 1
             /\ route'.pushed[Len(route'.pushed)]
                  = [pathname |-> "/auth/login",
                     query |-> [returnUrl |->
                        IF includes(route'.asPath,
                                    <<"/", "a", "u", "t", "h", "/">>)
                        THEN <<"/", "p", "r", "o", "f", "i", "l", "e">>
                        ELSE route'.asPath]]]_vars

(***************************************************************************)
(* combineDailyEntries applied to one list of two to MaxRows rows over two *)
(* dates, with the labels and texts of the rows as varied as above, and at *)
(* most one row of one other list.                                         *)
(***************************************************************************)
RowsAny ==
  <<MoodRowsAny, SleepRowsAny, WaterRowsAny, FoodRowsAny, GratitudeRowsAny>>

\* the rows of list j when list k holds n rows and list l holds m
RowCount(j, k, n, l, m) == IF j = k THEN n ELSE IF j = l THEN m ELSE 0

InitDuplicates ==
  /\ \E k \in 1..5, n \in 2..MaxRows, l \in 1..5, m \in 0..1 :
       /\ l # k
       /\ moodEntries \in ArraysOf(RowsAny[1], RowCount(1, k, n, l, m))
       /\ sleepEntries \in ArraysOf(RowsAny[2], RowCount(2, k, n, l, m))
       /\ waterEntries \in ArraysOf(RowsAny[3], RowCount(3, k, n, l, m))
       /\ foodEntries \in ArraysOf(RowsAny[4], RowCount(4, k, n, l, m))
       /\ gratitudeEntries \in ArraysOf(RowsAny[5], RowCount(5, k, n, l, m))
  /\ combinedEntries = << >>
  /\ sleepCorrelation = sleepCorrelationDefault
  /\ waterCorrelation = waterCorrelationDefault
  /\ gratitudeImpact = gratitudeImpactDefault
  /\ mealImpact = mealImpactDefault
  /\ pc = "fetched"
  /\ OffPageIdle
  /\ RunAwaited

NextDuplicates == CombineEntries

SpecDuplicates == InitDuplicates /\ [][NextDuplicates]_vars

\* the places of list k that hold a row of the date
PlacesOf(k, date) ==
  {i \in 1..Len(InputLists[k].items) : InputLists[k].items[i].date = date}

\* the five lists with list k replaced
ListsWith(k, list) == [j \in 1..5 |-> IF j = k THEN list ELSE InputLists[j]]

\* what combineDailyEntries returns for five lists
CombinedOf(lists) ==
  combineDailyEntries(lists[1], lists[2], lists[3], lists[4], lists[5])

\* the fields of list k in the record that combineDailyEntries returns for
\* the row alone
FieldsOfRowAlone(k, row) ==
  Restrict(CombinedOf([j \in 1..5 |->
                         ArrayOf(IF j = k THEN <<row>> ELSE << >>)])[1],
           OwnedBy[k])

\* C29: when one list holds several rows of a date, combineDailyEntries
\* returns one record of the date; the fields of that list in the record
\* are those of the list's last row of the date; and the fields of every
\* other list in the record are what they are without that list.
C29_DuplicateDates ==
  pc = "combined" =>
    \A k \in 1..5 : \A date \in FieldDates :
      Cardinality(PlacesOf(k, date)) >= 2 =>
        /\ Cardinality({i \in 1..Len(combinedEntries) :
                          combinedEntries[i].date = date}) = 1
        /\ Restrict(RecordOf(combinedEntries, date), OwnedBy[k])
             = FieldsOfRowAlone(k, LastOf(InputLists[k], date))
        /\ \A l \in (1..5) \ {k} :
             Restrict(RecordOf(combinedEntries, date), OwnedBy[l])
               = Restrict(RecordOf(CombinedOf(ListsWith(k, ArrayOf(<< >>))),
                                   date),
                          OwnedBy[l])

\* a list with two rows of a date that give different fields, the first
\* not the last, and a row of that date in another list
C29_Witness ==
  /\ pc = "combined"
  /\ \E k \in 1..5 : \E date \in FieldDates :
       /\ Cardinality(PlacesOf(k, date)) >= 2
       /\ \E i \in PlacesOf(k, date) :
            FieldsOfRowAlone(k, InputLists[k].items[i])
              # FieldsOfRowAlone(k, LastOf(InputLists[k], date))
       /\ \E l \in (1..5) \ {k} : HasRowOf(InputLists[l], date)

(***************************************************************************)
(* The two correlation functions on the combined records of OrderDays      *)
(* days, every day one of three kinds, and on the same records in every    *)
(* other order.                                                            *)
(***************************************************************************)
OrderDays == 5

OrderKinds ==
  << [mood |-> "neutral", hours_slept |-> 65, sleep_quality |-> 6, cups |-> 0],
     [mood |-> "great", hours_slept |-> 80, sleep_quality |-> 6, cups |-> 1],
     [mood |-> "good", hours_slept |-> 71, sleep_quality |-> 6, cups |-> 3] >>

InitOrder ==
  /\ \E kind \in [1..OrderDays -> 1..Len(OrderKinds)] :
       LET days == [d \in 1..OrderDays |-> OrderKinds[kind[d]]]
       IN  /\ moodEntries = Fetched(days, {"mood"})
           /\ sleepEntries = Fetched(days, {"hours_slept", "sleep_quality"})
           /\ waterEntries = Fetched(days, {"cups"})
           /\ foodEntries = Fetched(days, {"meals"})
           /\ gratitudeEntries = Fetched(days, {"gratitude_items"})
  /\ combinedEntries = << >>
  /\ sleepCorrelation = sleepCorrelationDefault
  /\ waterCorrelation = waterCorrelationDefault
  /\ gratitudeImpact = gratitudeImpactDefault
  /\ mealImpact = mealImpactDefault
  /\ pc = "fetched"
  /\ OffPageIdle
  /\ RunAwaited

NextOrder == CombineEntries \/ AnalyzeSleep \/ AnalyzeWater

SpecOrder == InitOrder /\ [][NextOrder]_vars

\* the combined records in the order that a permutation of their places
\* gives
Reordered(perm) ==
  [i \in 1..Len(combinedEntries) |-> combinedEntries[perm[i]]]

\* the (bucket, avgMood, count) entries of a result
AverageSet(result) ==
  IF Has(result, "averages")
  THEN {result.averages[i] : i \in 1..Len(result.averages)}
  ELSE {}

\* two results with the same optimal value, correlation and entries
SameOutcome(optimal, a, b) ==
  /\ a[optimal] = b[optimal]
  /\ a.correlation = b.correlation
  /\ AverageSet(a) = AverageSet(b)

\* C30: the optimal value, the correlation and the set of (bucket,
\* avgMood, count) entries that a correlation function returned for the
\* combined records are those it returns for the same records in every
\* other order.
C30_OrderIndependent ==
  pc = "combined" =>
    \A perm \in Permutations(1..Len(combinedEntries)) :
      /\ sleepCorrelation # sleepCorrelationDefault =>
           SameOutcome("optimalSleepHours", sleepCorrelation,
                       calculateMoodSleepCorrelation(Reordered(perm)))
      /\ waterCorrelation # waterCorrelationDefault =>
           SameOutcome("optimalWaterCups", waterCorrelation,
                       calculateMoodWaterCorrelation(Reordered(perm)))

====
